---- MODULE Spec2Model ----
(***************************************************************************)
(* Model of the click-pop OBS script: the pure core (click_pop_core.py:    *)
(* allocate_slot, expire_circles, find_display_for_point) and the router   *)
(* around it (obs_click_pop.py: the pynput listener callback, the 16 ms    *)
(* polling timer _poll_clicks, _spawn_circle, script_update and the        *)
(* display refresh).                                                       *)
(*                                                                         *)
(* Two threads: the listener thread only appends to _click_queue; the UI   *)
(* thread runs the timer callback and the script_* callbacks one at a      *)
(* time.  pc is the position of the UI thread inside _poll_clicks.         *)
(*                                                                         *)
(* OBS is the environment: scene_ok says whether a current scene can be    *)
(* obtained, scene_items what the scene holds of the pooled sources.       *)
(***************************************************************************)
EXTENDS Integers, Sequences, FiniteSets, TLC

\* ------------------------------------------------------------------------
\* Bounds of the model
\* ------------------------------------------------------------------------
MaxTime == 1        \* the clock runs over 0..MaxTime (seconds)
MaxClicks == 4      \* button presses observed by the listener in one run
MaxQueue == 1       \* events waiting in _click_queue at any moment
MaxBacklog == 2     \* ... where the order of the waiting events is examined
MaxCircles == 2     \* the max_circles setting ranges over 1..MaxCircles
MaxLen == 3         \* length of the lists handed to a core function called
\* displays in one sequence given to find_display_for_point
MaxDisplays == 2
                    \* on its own

None == "None"       \* Python's None where a string or an object is expected
NoName == <<>>       \* Python's None where a source name is expected
NoIndex == -1        \* a scan that found nothing
NoDisplay == <<>>    \* Python's None where a display dict is expected; <<d>> is d
NoCallback == <<>>   \* the listener thread is not inside on_click
NoGeometry == <<>>   \* the locals of _spawn_circle that a discarded call never sets

\* ------------------------------------------------------------------------
\* Slot names: f"{prefix}{i}" as a sequence of characters
\* ------------------------------------------------------------------------
PREFIX_L == <<"L", "_">>
PREFIX_R == <<"R", "_">>
Prefixes == {PREFIX_L, PREFIX_R}

DigitChar(d) == CASE d = 0 -> "0" [] d = 1 -> "1" [] d = 2 -> "2" [] d = 3 -> "3"
                  [] d = 4 -> "4" [] d = 5 -> "5" [] d = 6 -> "6" [] d = 7 -> "7"
                  [] d = 8 -> "8" [] d = 9 -> "9"

RECURSIVE IntToStr(_)
IntToStr(i) == IF i < 10 THEN <<DigitChar(i)>>
               ELSE IntToStr(i \div 10) \o <<DigitChar(i % 10)>>

\* f"{prefix}{i}"
SlotName(prefix, i) == prefix \o IntToStr(i)

\* a startswith that looks at the length only
startswith_AnyPrefix(n, prefix) == Len(n) >= Len(prefix)

\* str.startswith
startswith(n, prefix) ==
    /\ Len(n) >= Len(prefix)
    /\ SubSeq(n, 1, Len(prefix)) = prefix

\* a pop that removes nothing
ListPop_Keep(s, i) == s

\* list.pop(i), with i counted from 1
ListPop(s, i) == SubSeq(s, 1, i - 1) \o SubSeq(s, i + 1, Len(s))

\* ------------------------------------------------------------------------
\* click_pop_core.allocate_slot
\*   entries of active_clicks are pairs <<source_name, expire_time>>
\*   the result carries the list as the call leaves it (it is mutated
\*   in place on eviction)
\* ------------------------------------------------------------------------
\* a membership test that looks at the first entry only
in_use_FirstOnly(candidate, active_clicks) ==
    active_clicks # << >> /\ active_clicks[1][1] = candidate

in_use(candidate, active_clicks) ==
    \E k \in 1..Len(active_clicks) : active_clicks[k][1] = candidate

\* a round-robin scan: the next index is the number of entries with the prefix
FreeScan_RoundRobin(prefix, max_circles, active_clicks, i) ==
    LET n == Cardinality({k \in 1..Len(active_clicks) :
                             startswith(active_clicks[k][1], prefix)})
    IN  IF n < max_circles THEN n ELSE NoIndex

\* for i in range(max_circles): first i whose candidate is not in use, or None
RECURSIVE FreeScan(_, _, _, _)
FreeScan(prefix, max_circles, active_clicks, i) ==
    IF i >= max_circles THEN NoIndex
    ELSE IF ~in_use(SlotName(prefix, i), active_clicks) THEN i
    ELSE FreeScan(prefix, max_circles, active_clicks, i + 1)

\* an eviction scan that takes the last entry with the prefix
EvictScan_Last(prefix, active_clicks, k) ==
    LET S == {j \in 1..Len(active_clicks) : startswith(active_clicks[j][1], prefix)}
    IN  IF S = {} THEN NoIndex ELSE CHOOSE j \in S : \A m \in S : m <= j

\* for i, (n, _) in enumerate(active_clicks): first position with the prefix
\* a scan that finds no entry to evict
EvictScan_Nothing(prefix, active_clicks, k) == NoIndex

RECURSIVE EvictScan(_, _, _)
EvictScan(prefix, active_clicks, k) ==
    IF k > Len(active_clicks) THEN NoIndex
    ELSE IF startswith(active_clicks[k][1], prefix) THEN k
    ELSE EvictScan(prefix, active_clicks, k + 1)

\* branch tells which of the three returns of the function was taken
allocate_slot(prefix, max_circles, active_clicks) ==
    LET free == FreeScan(prefix, max_circles, active_clicks, 0)
        k    == EvictScan(prefix, active_clicks, 1)
    IN  IF free # NoIndex
        THEN [slot_name |-> SlotName(prefix, free), evicted |-> NoName,
              active_clicks |-> active_clicks, branch |-> "free"]
        ELSE IF k # NoIndex
        THEN [slot_name |-> active_clicks[k][1], evicted |-> active_clicks[k][1],
              active_clicks |-> ListPop(active_clicks, k), branch |-> "evict"]
        ELSE [slot_name |-> SlotName(prefix, 0), evicted |-> NoName,
              active_clicks |-> active_clicks, branch |-> "fallback"]

\* ------------------------------------------------------------------------
\* click_pop_core.expire_circles
\* ------------------------------------------------------------------------
\* an expiry that keeps an entry whose expire time equals now
RECURSIVE ExpireLoop_Strict(_, _, _, _, _)
ExpireLoop_Strict(active_clicks, now, k, still_active, expired_names) ==
    IF k > Len(active_clicks)
    THEN [still_active |-> still_active, expired_names |-> expired_names,
          active_clicks |-> active_clicks]
    ELSE IF now > active_clicks[k][2]
    THEN ExpireLoop_Strict(active_clicks, now, k + 1, still_active,
                           Append(expired_names, active_clicks[k][1]))
    ELSE ExpireLoop_Strict(active_clicks, now, k + 1,
                           Append(still_active, active_clicks[k]), expired_names)

\* an expiry that builds still_active back to front
RECURSIVE ExpireLoop_Reversed(_, _, _, _, _)
ExpireLoop_Reversed(active_clicks, now, k, still_active, expired_names) ==
    IF k > Len(active_clicks)
    THEN [still_active |-> still_active, expired_names |-> expired_names,
          active_clicks |-> active_clicks]
    ELSE IF now >= active_clicks[k][2]
    THEN ExpireLoop_Reversed(active_clicks, now, k + 1, still_active,
                             Append(expired_names, active_clicks[k][1]))
    ELSE ExpireLoop_Reversed(active_clicks, now, k + 1,
                             <<active_clicks[k]>> \o still_active, expired_names)

RECURSIVE ExpireLoop(_, _, _, _, _)
ExpireLoop(active_clicks, now, k, still_active, expired_names) ==
    IF k > Len(active_clicks)
    THEN [still_active |-> still_active, expired_names |-> expired_names,
          active_clicks |-> active_clicks]
    ELSE IF now >= active_clicks[k][2]
    THEN ExpireLoop(active_clicks, now, k + 1, still_active,
                    Append(expired_names, active_clicks[k][1]))
    ELSE ExpireLoop(active_clicks, now, k + 1,
                    Append(still_active, active_clicks[k]), expired_names)

expire_circles(active_clicks, now) ==
    ExpireLoop(active_clicks, now, 1, <<>>, <<>>)

\* ------------------------------------------------------------------------
\* click_pop_core.find_display_for_point
\* ------------------------------------------------------------------------
\* the scan with the right and bottom edges taken as part of the display
RECURSIVE FindLoop_Closed(_, _, _, _)
FindLoop_Closed(x, y, displays, k) ==
    IF k > Len(displays) THEN NoDisplay
    ELSE LET d == displays[k]
         IN  IF d.x <= x /\ x <= d.x + d.w /\ d.y <= y /\ y <= d.y + d.h
             THEN <<d>>
             ELSE FindLoop_Closed(x, y, displays, k + 1)

RECURSIVE FindLoop(_, _, _, _)
FindLoop(x, y, displays, k) ==
    IF k > Len(displays) THEN NoDisplay
    ELSE LET d == displays[k]
         IN  IF d.x <= x /\ x < d.x + d.w /\ d.y <= y /\ y < d.y + d.h
             THEN <<d>>
             ELSE FindLoop(x, y, displays, k + 1)

\* the scan with the right and bottom edges taken as inside
find_display_for_point_Closed(x, y, displays) == FindLoop_Closed(x, y, displays, 1)

find_display_for_point(x, y, displays) == FindLoop(x, y, displays, 1)

\* ------------------------------------------------------------------------
\* click_pop_core.map_coords
\* ------------------------------------------------------------------------
\* Python computes the mapping in floats ("/" is true division); a number is
\* modelled as the exact fraction <<numerator, denominator>> in lowest terms
\* with a positive denominator.
RECURSIVE Gcd(_, _)
Gcd(a, b) == IF b = 0 THEN a ELSE Gcd(b, a % b)

Abs(a) == IF a < 0 THEN 0 - a ELSE a

Frac(n, d) ==
    LET g == Gcd(Abs(n), Abs(d))
        sign == IF d < 0 THEN 0 - 1 ELSE 1
    IN  <<(sign * n) \div g, (sign * d) \div g>>

Num(n) == <<n, 1>>
FAdd(a, b) == Frac(a[1] * b[2] + b[1] * a[2], a[2] * b[2])
FSub(a, b) == Frac(a[1] * b[2] - b[1] * a[2], a[2] * b[2])
FMul(a, b) == Frac(a[1] * b[1], a[2] * b[2])
FDiv(a, b) == Frac(a[1] * b[2], a[2] * b[1])

\* capture_scale_x=None, capture_scale_y=None
NoScale == << >>

\* the crop subtracted after the scaling instead of before it
map_coords_CropAfterScale(x, y, canvas_w, canvas_h, monitor_w, monitor_h, circle_size, crop_left, crop_top, capture_pos_x, capture_pos_y, capture_scale_x, capture_scale_y) ==
    LET scale_x == IF capture_scale_x = NoScale THEN FDiv(canvas_w, monitor_w)
                   ELSE capture_scale_x
        scale_y == IF capture_scale_y = NoScale THEN FDiv(canvas_h, monitor_h)
                   ELSE capture_scale_y
        half == FDiv(circle_size, Num(2))
    IN  <<FSub(FSub(FAdd(capture_pos_x, FMul(x, scale_x)), crop_left), half),
          FSub(FSub(FAdd(capture_pos_y, FMul(y, scale_y)), crop_top), half)>>

\* the fallback scale taken as monitor size over canvas size
map_coords_InvertedFallback(x, y, canvas_w, canvas_h, monitor_w, monitor_h, circle_size, crop_left, crop_top, capture_pos_x, capture_pos_y, capture_scale_x, capture_scale_y) ==
    LET scale_x == IF capture_scale_x = NoScale THEN FDiv(monitor_w, canvas_w)
                   ELSE capture_scale_x
        scale_y == IF capture_scale_y = NoScale THEN FDiv(monitor_h, canvas_h)
                   ELSE capture_scale_y
        cropped_x == FSub(x, crop_left)
        cropped_y == FSub(y, crop_top)
        half == FDiv(circle_size, Num(2))
    IN  <<FSub(FAdd(capture_pos_x, FMul(cropped_x, scale_x)), half),
          FSub(FAdd(capture_pos_y, FMul(cropped_y, scale_y)), half)>>

map_coords(x, y, canvas_w, canvas_h, monitor_w, monitor_h, circle_size, crop_left, crop_top, capture_pos_x, capture_pos_y, capture_scale_x, capture_scale_y) ==
    LET scale_x == IF capture_scale_x = NoScale THEN FDiv(canvas_w, monitor_w)
                   ELSE capture_scale_x
        scale_y == IF capture_scale_y = NoScale THEN FDiv(canvas_h, monitor_h)
                   ELSE capture_scale_y
        cropped_x == FSub(x, crop_left)
        cropped_y == FSub(y, crop_top)
        half == FDiv(circle_size, Num(2))
    IN  <<FSub(FAdd(capture_pos_x, FMul(cropped_x, scale_x)), half),
          FSub(FAdd(capture_pos_y, FMul(cropped_y, scale_y)), half)>>

\* ------------------------------------------------------------------------
\* The environment: what the platform's display enumeration can return and
\* where the pointer can be pressed
\* ------------------------------------------------------------------------
\* A display dict.  obj tells the dict objects apart (Python's "is" compares
\* objects, not contents): 0 for the dicts of the enumeration _all_displays
\* holds now, 1 for a dict of an earlier enumeration that is still referenced.
Display(id, x, y, w, h, obj) ==
    [x |-> x, y |-> y, w |-> w, h |-> h, id |-> id, obj |-> obj, retina_scale |-> 1]

\* one display
SingleLayout == << Display(0, 0, 0, 1, 1, 0) >>
\* two displays with a dead zone between them (x = 1 belongs to neither)
DualLayout == << Display(0, 0, 0, 1, 1, 0), Display(1, 2, 0, 1, 1, 0) >>

\* one HiDPI display whose origin is not the origin of the desktop
ShiftedLayout == << [Display(0, 1, 0, 1, 1, 0) EXCEPT !.retina_scale = 2] >>

\* two displays with a dead zone between them, of different sizes, one of
\* them HiDPI: the primary one, or the secondary one
HiDpiFirst == << [Display(0, 0, 0, 1, 1, 0) EXCEPT !.retina_scale = 2],
                 Display(1, 2, 0, 3, 2, 0) >>
HiDpiSecond == << Display(0, 0, 0, 1, 1, 0),
                  [Display(1, 2, 0, 3, 2, 0) EXCEPT !.retina_scale = 2] >>
\* ... on a machine with two such monitors
TwoMonitors == {HiDpiFirst, HiDpiSecond}
\* pointer positions there: on the primary display, in the dead zone, inside
\* the secondary display
TwoMonitorPoints == {<<0, 0>>, <<1, 0>>, <<3, 1>>}

\* _detect_all_displays() on any machine: new dict objects every time
Layouts == {SingleLayout, DualLayout}
\* ... on a machine with one monitor
OneMonitor == {SingleLayout}
\* ... on a machine with one monitor, wherever its origin is
OneMonitorAnywhere == {SingleLayout, ShiftedLayout}

\* the same dict, seen after _all_displays was enumerated again
Older(display) == IF display = NoDisplay THEN NoDisplay
                  ELSE <<[display[1] EXCEPT !.obj = 1]>>

\* pointer positions: on display 0 and in the dead zone of DualLayout
Points == {<<0, 0>>, <<1, 0>>}
\* ... on a machine with one monitor
OnePoint == {<<0, 0>>}

\* _settings["monitor_w"], _settings["monitor_h"] as the module is loaded
DefaultMonitor == <<1920, 1080>>
\* values of the monitor_w, monitor_h settings as OBS stores them
MonitorSizes == {DefaultMonitor, <<3, 2>>}

\* values of the duration_ms setting (whole seconds, inside the UI's 100..2000)
DurationsMs == {1000, 2000}

\* ------------------------------------------------------------------------
\* State
\* ------------------------------------------------------------------------
VARIABLES
    clock,              \* time.time(), whole seconds
    _listener,          \* None or "Listener" (the pynput thread)
    _timer_active,      \* the 16 ms timer is registered
    callback,           \* listener thread: NoCallback, or <<x, y, is_left>> of
                        \* the on_click call that has tested pressed and has
                        \* not appended yet
    _click_queue,       \* deque of <<x, y, is_left, t, serial>>; serial is
                        \* history, the number of the press
    _active_clicks,     \* list of <<source_name, expire_time>>
    _settings,          \* [duration_ms, max_circles, monitor_w, monitor_h]
    _retina_scale,      \* backing scale of the first display enumerated
    _all_displays,      \* list of display dicts
    _captured_display,  \* NoDisplay or <<d>>
    scene_ok,           \* OBS: obs_frontend_get_current_scene() returns a scene
    scene_items,        \* OBS: source name -> "absent", "hidden" or "visible",
                        \* the item of that name in the scene
    pc,                 \* UI thread: "idle", its place in _poll_clicks, or
                        \* "unloaded" once script_unload has returned
    now,                \* _poll_clicks' local now (0 outside the callback)
    render,             \* history: requests sent to the scene by this tick
    nclicks,            \* presses seen so far (bounded by MaxClicks)
    nconsumed,          \* history: events _poll_clicks has popped so far
    spawn_seq,          \* history: source name -> rank, among the live
                        \* entries, of the spawn that made its entry (1 is
                        \* the earliest spawn, 0 is no entry)
    last_spawn,         \* history: the last _spawn_circle call of this tick
    call                \* a call of a core function on its own

vars == <<clock, _listener, _timer_active, _click_queue, _active_clicks,
          _settings, _retina_scale, _all_displays, _captured_display,
          scene_ok, scene_items, pc, now, render, callback, nconsumed,
          nclicks, spawn_seq, last_spawn, call>>

AllNames == {SlotName(p, i) : p \in Prefixes, i \in 0..(MaxCircles - 1)}

NoCall == [fn |-> "none", done |-> TRUE]
NoSpawn == [valid |-> FALSE, discarded |-> FALSE]

Names(active_clicks) == {active_clicks[k][1] : k \in 1..Len(active_clicks)}

InitRouter ==
    /\ clock = 0
    /\ _listener = None
    /\ _timer_active = FALSE
    /\ _click_queue = <<>>
    /\ _active_clicks = <<>>
    /\ _settings \in [duration_ms : DurationsMs, max_circles : 1..MaxCircles,
                       monitor_w : {DefaultMonitor[1]},
                       monitor_h : {DefaultMonitor[2]}]
    /\ _retina_scale = 1
    /\ _all_displays = <<>>
    /\ _captured_display = NoDisplay
    /\ scene_ok = TRUE
    /\ scene_items = [n \in AllNames |-> "absent"]
    /\ pc = "idle"
    /\ now = 0
    /\ render = <<>>
    /\ nclicks = 0
    /\ nconsumed = 0
    /\ callback = NoCallback
    /\ spawn_seq = [n \in AllNames |-> 0]
    /\ last_spawn = NoSpawn

Init == InitRouter /\ call = NoCall

\* pynput's buttons
Buttons == {"left", "right", "middle"}
\* the button a click with the given is_left was made with
ButtonOf(is_left) == IF is_left THEN "left" ELSE "right"

\* is_left = (button == Button.left)
button_is_left(button) == button = "left"

\* the callback appending for a release as it does for a press
on_click_append_Always(queue, x, y, button, pressed, t, serial) ==
    Append(queue, <<x, y, button_is_left(button), t, serial>>)

\* the body of on_click(x, y, button, pressed) at time t, as what it makes of
\* the queue; serial numbers the presses (it is not part of the tuple the
\* code appends)
on_click_append(queue, x, y, button, pressed, t, serial) ==
    IF pressed
    THEN Append(queue, <<x, y, button_is_left(button), t, serial>>)
    ELSE queue

\* ------------------------------------------------------------------------
\* Listener thread
\* ------------------------------------------------------------------------
\* on_click(x, y, button, pressed) with pressed = True, run without a
\* switch to the UI thread; room bounds the queue
on_click(x, y, is_left, room) ==
    /\ _listener # None
    /\ callback = NoCallback
    /\ nclicks < MaxClicks
    /\ Len(_click_queue) < room
    /\ _click_queue' = on_click_append(_click_queue, x, y, ButtonOf(is_left), TRUE, clock, nclicks + 1)
    /\ nclicks' = nclicks + 1
    /\ UNCHANGED <<clock, callback, _listener, _timer_active, _active_clicks,
                   _settings, _retina_scale, _all_displays, _captured_display,
                   scene_ok, scene_items, pc, now, render, nconsumed,
                   spawn_seq, last_spawn, call>>

OnClick(x, y, is_left) == on_click(x, y, is_left, MaxQueue)

\* on_click with a switch to the UI thread inside it: the listener delivers
\* the press (if pressed: is_left = ...) ...
OnClickEnter(x, y, is_left) ==
    /\ _listener # None
    /\ callback = NoCallback
    /\ nclicks < MaxClicks
    /\ callback' = <<x, y, is_left>>
    /\ nclicks' = nclicks + 1
    /\ UNCHANGED <<clock, _listener, _timer_active, _click_queue,
                   _active_clicks, _settings, _retina_scale, _all_displays,
                   _captured_display, scene_ok, scene_items, pc, now, render,
                   nconsumed, spawn_seq, last_spawn, call>>

\* the listener thread recording the press in _active_clicks as well
OnClickAppend_Touching ==
    /\ callback # NoCallback
    /\ Len(_click_queue) < MaxQueue
    /\ _click_queue' = on_click_append(_click_queue, callback[1], callback[2], ButtonOf(callback[3]), TRUE, clock, nclicks)
    /\ _active_clicks' = << >>
    /\ callback' = NoCallback
    /\ UNCHANGED <<clock, _listener, _timer_active, _settings,
                   _retina_scale, _all_displays, _captured_display, scene_ok,
                   scene_items, pc, now, render, nclicks, nconsumed,
                   spawn_seq, last_spawn, call>>

\* ... and the thread goes on to _click_queue.append((x, y, is_left,
\* time.time())); nothing makes it wait for, or look at, _stop_listener
OnClickAppend ==
    /\ callback # NoCallback
    /\ Len(_click_queue) < MaxQueue
    /\ _click_queue' = on_click_append(_click_queue, callback[1], callback[2], ButtonOf(callback[3]), TRUE, clock, nclicks)
    /\ callback' = NoCallback
    /\ UNCHANGED <<clock, _listener, _timer_active, _active_clicks, _settings,
                   _retina_scale, _all_displays, _captured_display, scene_ok,
                   scene_items, pc, now, render, nclicks, nconsumed,
                   spawn_seq, last_spawn, call>>

\* ------------------------------------------------------------------------
\* UI thread: listener management
\* ------------------------------------------------------------------------
StartListener ==
    /\ pc = "idle"
    /\ _listener = None
    /\ _listener' = "Listener"
    /\ _timer_active' = TRUE
    /\ UNCHANGED <<clock, callback, _click_queue, _active_clicks, _settings,
                   _retina_scale, _all_displays, _captured_display, scene_ok,
                   scene_items, pc, now, render, nclicks, nconsumed,
                   spawn_seq, last_spawn, call>>

StopListener ==
    /\ pc = "idle"
    /\ _listener # None \/ _timer_active
    /\ _listener' = None
    /\ _timer_active' = FALSE
    /\ UNCHANGED <<clock, callback, _click_queue, _active_clicks, _settings,
                   _retina_scale, _all_displays, _captured_display, scene_ok,
                   scene_items, pc, now, render, nclicks, nconsumed,
                   spawn_seq, last_spawn, call>>

\* ------------------------------------------------------------------------
\* UI thread: settings and displays
\* ------------------------------------------------------------------------
\* _resolve_captured_display: None (no capture source named, source not
\* found, no match), or the dict of displays that the platform lookup matches
ResolveResults(displays, has_source) ==
    IF has_source
    THEN {NoDisplay} \cup {<<displays[k]>> : k \in 1..Len(displays)}
    ELSE {NoDisplay}

\* what the platform's enumeration does when it is asked: it raises, or it
\* returns a list of display dicts, possibly an empty one
Answer(displays) == [displays |-> displays, raised |-> FALSE]
Raises == [displays |-> << >>, raised |-> TRUE]
Answers(layouts) == {Answer(displays) : displays \in layouts}
\* the answers on the machines of the specifications
LayoutAnswers == Answers(Layouts)
OneMonitorAnswers == Answers(OneMonitor)
TwoMonitorAnswers == Answers(TwoMonitors)
AnywhereAnswers == Answers(OneMonitorAnywhere)

\* the display _detect_all_displays makes up when the enumeration gave nothing
DefaultDisplay ==
    [x |-> 0, y |-> 0, w |-> 1920, h |-> 1080, id |-> 0, obj |-> 0,
     retina_scale |-> 1]

\* the try block: displays stays [] when the enumeration raises
query_displays(platform) ==
    IF platform.raised THEN << >> ELSE platform.displays

\* the enumeration's answer returned as it is, empty or not
_detect_all_displays_NoFallback(platform) == query_displays(platform)

_detect_all_displays(platform) ==
    LET displays == query_displays(platform)
    IN  IF displays = << >> THEN <<DefaultDisplay>> ELSE displays

\* _retina_scale after an enumeration: the primary display's scale, or the
\* old value when the list is empty
primary_scale(displays) ==
    IF displays # << >> THEN displays[1].retina_scale ELSE _retina_scale

\* _refresh_displays, on a machine whose enumeration does one of platforms
RefreshDisplays(platforms, has_source) ==
    /\ \E platform \in platforms : _all_displays' = _detect_all_displays(platform)
    /\ _retina_scale' = primary_scale(_all_displays')
    /\ _captured_display' \in ResolveResults(_all_displays', has_source)

OnRefreshDisplays(platforms, has_source) ==
    /\ pc = "idle"
    /\ RefreshDisplays(platforms, has_source)
    /\ UNCHANGED <<clock, callback, _listener, _timer_active, _click_queue,
                   _active_clicks, _settings, scene_ok, scene_items, pc, now,
                   render, nclicks, nconsumed, spawn_seq, last_spawn, call>>

\* the monitor size taken from the captured display whenever one is
\* resolved, overridden or not
effective_monitor_IgnoreOverride(override_monitor, monitor, captured_display) ==
    IF captured_display # NoDisplay
    THEN <<captured_display[1].w, captured_display[1].h>>
    ELSE monitor

\* _settings["monitor_w"], _settings["monitor_h"] at the end of
\* script_update: the stored values, replaced by the captured display's size
\* unless override_monitor is set
effective_monitor(override_monitor, monitor, captured_display) ==
    IF ~override_monitor /\ captured_display # NoDisplay
    THEN <<captured_display[1].w, captured_display[1].h>>
    ELSE monitor

\* what script_update does to the program's variables, with the values OBS
\* stores for the settings
update_settings(duration_ms, max_circles, override_monitor, monitor, platforms, has_source) ==
    /\ pc = "idle"
    /\ RefreshDisplays(platforms, has_source)
    /\ LET effective == effective_monitor(override_monitor, monitor, _captured_display')
       IN  _settings' = [duration_ms |-> duration_ms,
                         max_circles |-> max_circles,
                         monitor_w |-> effective[1],
                         monitor_h |-> effective[2]]
    /\ UNCHANGED <<clock, callback, _listener, _timer_active, _click_queue,
                   _active_clicks, scene_ok, scene_items, pc, now, render,
                   nclicks, nconsumed, spawn_seq, last_spawn>>

script_update(duration_ms, max_circles, override_monitor, monitor, platforms, has_source) ==
    /\ update_settings(duration_ms, max_circles, override_monitor, monitor, platforms, has_source)
    /\ UNCHANGED call

\* script_update, with a note of the stored override_monitor, monitor_w and
\* monitor_h it read and of the captured display it resolved
script_update_noted(duration_ms, max_circles, override_monitor, monitor, platforms, has_source) ==
    /\ update_settings(duration_ms, max_circles, override_monitor, monitor, platforms, has_source)
    /\ call' = [fn |-> "script_update", done |-> TRUE,
                override_monitor |-> override_monitor, monitor |-> monitor,
                captured_display |-> _captured_display']

\* script_defaults -> _detect_screen_size: a new enumeration, the captured
\* display is not resolved again
script_defaults(platforms) ==
    /\ pc = "idle"
    /\ \E platform \in platforms : _all_displays' = _detect_all_displays(platform)
    /\ _retina_scale' = primary_scale(_all_displays')
    /\ _captured_display' = Older(_captured_display)
    /\ UNCHANGED <<clock, callback, _listener, _timer_active, _click_queue,
                   _active_clicks, _settings, scene_ok, scene_items, pc, now,
                   render, nclicks, nconsumed, spawn_seq, last_spawn, call>>

\* ------------------------------------------------------------------------
\* UI thread: _spawn_circle(x, y, is_left, expire_time), as the record of
\* what the call does to _active_clicks and which requests it sends
\* ------------------------------------------------------------------------
HideReq(name) == [op |-> "hide", name |-> name]
ShowReq(name) == [op |-> "show", name |-> name]

\* _show_source: with no current scene it returns at once; otherwise the item
\* is found or added, and made visible
_show_source(items, name) ==
    IF ~scene_ok THEN items ELSE [items EXCEPT ![name] = "visible"]

\* a hide whose lookup never finds the item
_hide_source_Unfound(items, name) == items

\* _hide_source: with no current scene it returns at once; an item that is
\* found is made invisible
_hide_source(items, name) ==
    IF ~scene_ok \/ items[name] = "absent" THEN items
    ELSE [items EXCEPT ![name] = "hidden"]

\* the scene after the requests, in order
RECURSIVE ApplyRequests(_, _)
ApplyRequests(items, requests) ==
    IF requests = <<>> THEN items
    ELSE ApplyRequests(IF Head(requests).op = "show"
                       THEN _show_source(items, Head(requests).name)
                       ELSE _hide_source(items, Head(requests).name),
                       Tail(requests))

\* requests that show the slot before they hide the evicted one
spawn_requests_ShowFirst(slot_name, evicted) ==
    <<ShowReq(slot_name)>> \o
    (IF evicted # NoName THEN <<HideReq(evicted)>> ELSE <<>>)

\* if evicted is not None: _hide_source(evicted) ... _show_source(src_name, ...)
spawn_requests(slot_name, evicted) ==
    (IF evicted # NoName THEN <<HideReq(evicted)>> ELSE <<>>) \o
    <<ShowReq(slot_name)>>

\* a lookup that is made with one display too
spawn_display_AlwaysFind(x, y) == find_display_for_point(x, y, _all_displays)

\* display = None; if len(_all_displays) > 1: display = find_display_for_point(...)
spawn_display(x, y) ==
    IF Len(_all_displays) > 1
    THEN find_display_for_point(x, y, _all_displays)
    ELSE NoDisplay

\* local_x, local_y, mon_w, mon_h, retina: from the display hit, or the raw
\* coordinates with the monitor settings and the global scale
spawn_geometry(x, y, display) ==
    IF display # NoDisplay
    THEN [local_x |-> x - display[1].x, local_y |-> y - display[1].y,
          mon_w |-> display[1].w, mon_h |-> display[1].h,
          retina |-> display[1].retina_scale]
    ELSE [local_x |-> x, local_y |-> y,
          mon_w |-> _settings.monitor_w, mon_h |-> _settings.monitor_h,
          retina |-> _retina_scale]

\* the point and the monitor size scaled with the global backing scale
mapper_arguments_GlobalScale(geometry) ==
    [phys_x |-> geometry.local_x * _retina_scale,
     phys_y |-> geometry.local_y * _retina_scale,
     phys_mon_w |-> geometry.mon_w * _retina_scale,
     phys_mon_h |-> geometry.mon_h * _retina_scale]

\* the point scaled, the monitor size left in logical points
mapper_arguments_PointOnly(geometry) ==
    [phys_x |-> geometry.local_x * geometry.retina,
     phys_y |-> geometry.local_y * geometry.retina,
     phys_mon_w |-> geometry.mon_w,
     phys_mon_h |-> geometry.mon_h]

\* phys_x, phys_y, phys_mon_w, phys_mon_h: what map_coords is called with
mapper_arguments(geometry) ==
    [phys_x |-> geometry.local_x * geometry.retina,
     phys_y |-> geometry.local_y * geometry.retina,
     phys_mon_w |-> geometry.mon_w * geometry.retina,
     phys_mon_h |-> geometry.mon_h * geometry.retina]

\* a spawn that takes its slot before it looks at the displays
_spawn_circle_LateDiscard(x, y, is_left, expire_time) ==
    LET display == IF Len(_all_displays) > 1
                   THEN find_display_for_point(x, y, _all_displays)
                   ELSE NoDisplay
        discard == /\ Len(_all_displays) > 1
                   /\ _captured_display # NoDisplay
                   /\ display # _captured_display
        prefix  == IF is_left THEN PREFIX_L ELSE PREFIX_R
        max_c   == _settings.max_circles
        a       == allocate_slot(prefix, max_c, _active_clicks)
        hides   == IF a.evicted # NoName THEN <<HideReq(a.evicted)>> ELSE <<>>
    IN  IF discard
        THEN [discarded |-> TRUE, prefix |-> prefix, max_c |-> max_c,
              slot_name |-> NoName, evicted |-> NoName, branch |-> "none",
              requests |-> hides, geometry |-> NoGeometry, mapper |-> NoGeometry,
              active_clicks |-> a.active_clicks]
        ELSE [discarded |-> FALSE, prefix |-> prefix, max_c |-> max_c,
              slot_name |-> a.slot_name, evicted |-> a.evicted, branch |-> a.branch,
              geometry |-> spawn_geometry(x, y, display),
              mapper |-> mapper_arguments(spawn_geometry(x, y, display)),
              requests |-> hides \o <<ShowReq(a.slot_name)>>,
              active_clicks |-> Append(a.active_clicks,
                                       <<a.slot_name, expire_time>>)]

\* a spawn that applies the captured-display check with one display too
_spawn_circle_NoLenCheck(x, y, is_left, expire_time) ==
    LET display == IF Len(_all_displays) > 1
                   THEN find_display_for_point(x, y, _all_displays)
                   ELSE NoDisplay
        discard == /\ _captured_display # NoDisplay
                   /\ display # _captured_display
        prefix  == IF is_left THEN PREFIX_L ELSE PREFIX_R
        max_c   == _settings.max_circles
        a       == allocate_slot(prefix, max_c, _active_clicks)
    IN  IF discard
        THEN [discarded |-> TRUE, prefix |-> prefix, max_c |-> max_c,
              slot_name |-> NoName, evicted |-> NoName, branch |-> "none",
              requests |-> <<>>, geometry |-> NoGeometry, mapper |-> NoGeometry,
              active_clicks |-> _active_clicks]
        ELSE [discarded |-> FALSE, prefix |-> prefix, max_c |-> max_c,
              slot_name |-> a.slot_name, evicted |-> a.evicted, branch |-> a.branch,
              geometry |-> spawn_geometry(x, y, display),
              mapper |-> mapper_arguments(spawn_geometry(x, y, display)),
              requests |-> (IF a.evicted # NoName THEN <<HideReq(a.evicted)>>
                            ELSE <<>>) \o <<ShowReq(a.slot_name)>>,
              active_clicks |-> Append(a.active_clicks,
                                       <<a.slot_name, expire_time>>)]

_spawn_circle(x, y, is_left, expire_time) ==
    LET display == spawn_display(x, y)
        discard == /\ Len(_all_displays) > 1
                   /\ _captured_display # NoDisplay
                   /\ display # _captured_display
        prefix  == IF is_left THEN PREFIX_L ELSE PREFIX_R
        max_c   == _settings.max_circles
        a       == allocate_slot(prefix, max_c, _active_clicks)
    IN  IF discard
        THEN [discarded |-> TRUE, prefix |-> prefix, max_c |-> max_c,
              slot_name |-> NoName, evicted |-> NoName, branch |-> "none",
              requests |-> <<>>, geometry |-> NoGeometry, mapper |-> NoGeometry,
              active_clicks |-> _active_clicks]
        ELSE [discarded |-> FALSE, prefix |-> prefix, max_c |-> max_c,
              slot_name |-> a.slot_name, evicted |-> a.evicted, branch |-> a.branch,
              geometry |-> spawn_geometry(x, y, display),
              mapper |-> mapper_arguments(spawn_geometry(x, y, display)),
              requests |-> spawn_requests(a.slot_name, a.evicted),
              active_clicks |-> Append(a.active_clicks,
                                       <<a.slot_name, expire_time>>)]

\* ------------------------------------------------------------------------
\* UI thread: the timer callback _poll_clicks
\* ------------------------------------------------------------------------
\* (duration_s_Millis: the setting taken as seconds)
\* duration_s: script_update runs on the same thread, so the setting cannot
\* change between the read at the top of the tick and the spawns
duration_s_Millis == _settings.duration_ms

duration_s == _settings.duration_ms \div 1000

\* now = time.time()
PollStart ==
    /\ _timer_active
    /\ pc = "idle"
    /\ now' = clock
    /\ pc' = "test"
    /\ UNCHANGED <<clock, callback, _listener, _timer_active, _click_queue,
                   _active_clicks, _settings, _retina_scale, _all_displays,
                   _captured_display, scene_ok, scene_items, render, nclicks,
                   nconsumed, spawn_seq, last_spawn, call>>

\* a drain that gives up after the first event of the tick
PollTest_Once ==
    /\ pc = "test"
    /\ pc' = IF _click_queue # <<>> /\ ~last_spawn.valid THEN "pop" ELSE "expire"
    /\ UNCHANGED <<clock, callback, _listener, _timer_active, _click_queue,
                   _active_clicks, _settings, _retina_scale, _all_displays,
                   _captured_display, scene_ok, scene_items, now, render,
                   nclicks, nconsumed, spawn_seq, last_spawn, call>>

\* a loop that tests the queue after its body only (do ... while)
PollTest_DoWhile ==
    /\ pc = "test"
    /\ pc' = IF _click_queue # <<>> \/ ~last_spawn.valid THEN "pop" ELSE "expire"
    /\ UNCHANGED <<clock, callback, _listener, _timer_active, _click_queue,
                   _active_clicks, _settings, _retina_scale, _all_displays,
                   _captured_display, scene_ok, scene_items, now, render,
                   nclicks, nconsumed, spawn_seq, last_spawn, call>>

\* while _click_queue:
PollTest ==
    /\ pc = "test"
    /\ pc' = IF _click_queue # <<>> THEN "pop" ELSE "expire"
    /\ UNCHANGED <<clock, callback, _listener, _timer_active, _click_queue,
                   _active_clicks, _settings, _retina_scale, _all_displays,
                   _captured_display, scene_ok, scene_items, now, render,
                   nclicks, nconsumed, spawn_seq, last_spawn, call>>

MaxSeq == LET S == {spawn_seq[n] : n \in DOMAIN spawn_seq}
          IN  CHOOSE m \in S : \A k \in S : k <= m

\* spawn numbers of the names in live, renumbered 1, 2, ... in the same order
Ranked(seq, live) ==
    [n \in DOMAIN seq |->
        IF n \in live
        THEN Cardinality({m \in live : seq[m] <= seq[n]})
        ELSE 0]

\* history: how many live entries with the prefix were spawned no later than
\* the entry called evicted (1: it was the earliest of them; 0: none evicted)
EvictedRank(evicted, prefix) ==
    IF evicted = NoName THEN 0
    ELSE Cardinality({n \in Names(_active_clicks) :
                         /\ startswith(n, prefix)
                         /\ spawn_seq[n] <= spawn_seq[evicted]})

\* a pop from the right end
popleft_Right(q) == [item |-> q[Len(q)], rest |-> SubSeq(q, 1, Len(q) - 1)]

\* deque.popleft()
popleft(q) == [item |-> Head(q), rest |-> Tail(q)]

\* x, y, is_left, t = _click_queue.popleft()
\* _spawn_circle(x, y, is_left, t + duration_s)
PollPop ==
    /\ pc = "pop"
    /\ _click_queue # <<>>
    /\ LET ev == popleft(_click_queue).item
           r  == _spawn_circle(ev[1], ev[2], ev[3], ev[4] + duration_s)
       IN  /\ _click_queue' = popleft(_click_queue).rest
           /\ nconsumed' = nconsumed + 1
           /\ _active_clicks' = r.active_clicks
           /\ render' = render \o r.requests
           /\ scene_items' = ApplyRequests(scene_items, r.requests)
           /\ spawn_seq' = IF r.discarded THEN spawn_seq
                           ELSE Ranked([spawn_seq EXCEPT ![r.slot_name] = MaxSeq + 1],
                                       Names(r.active_clicks))
           /\ last_spawn' = [valid |-> TRUE, discarded |-> r.discarded,
                             serial |-> ev[5],
                             x |-> ev[1], y |-> ev[2], is_left |-> ev[3],
                             expire_time |-> ev[4] + duration_s,
                             prefix |-> r.prefix, max_c |-> r.max_c,
                             slot_name |-> r.slot_name, evicted |-> r.evicted,
                             branch |-> r.branch,
                             geometry |-> r.geometry,
                             mapper |-> r.mapper,
                             evicted_rank |-> EvictedRank(r.evicted, r.prefix)]
    /\ pc' = "test"
    /\ UNCHANGED <<clock, callback, _listener, _timer_active, _settings,
                   _retina_scale, _all_displays, _captured_display, scene_ok,
                   now, nclicks, call>>

\* a tick that hides only the first expired name
HideAll_First(names) == IF names = <<>> THEN <<>> ELSE <<HideReq(Head(names))>>

RECURSIVE HideAll(_)
HideAll(names) == IF names = <<>> THEN <<>>
                  ELSE <<HideReq(Head(names))>> \o HideAll(Tail(names))

\* still_active, expired = expire_circles(_active_clicks, now)
\* for name in expired: _hide_source(name)
\* _active_clicks[:] = still_active
PollExpire ==
    /\ pc = "expire"
    /\ LET r == expire_circles(_active_clicks, now)
       IN  /\ render' = render \o HideAll(r.expired_names)
           /\ scene_items' = ApplyRequests(scene_items, HideAll(r.expired_names))
           /\ _active_clicks' = r.still_active
           /\ spawn_seq' = Ranked(spawn_seq, Names(r.still_active))
    /\ pc' = "done"
    /\ UNCHANGED <<clock, callback, _listener, _timer_active, _click_queue,
                   _settings, _retina_scale, _all_displays, _captured_display,
                   scene_ok, now, nclicks, nconsumed, last_spawn, call>>

\* the callback returns: its locals and the history of the tick are dropped
PollReturn ==
    /\ pc = "done"
    /\ pc' = "idle"
    /\ now' = 0
    /\ render' = <<>>
    /\ last_spawn' = NoSpawn
    /\ UNCHANGED <<clock, callback, _listener, _timer_active, _click_queue,
                   _active_clicks, _settings, _retina_scale, _all_displays,
                   _captured_display, scene_ok, scene_items, nclicks,
                   nconsumed, spawn_seq, call>>

\* ------------------------------------------------------------------------
\* UI thread: shutdown
\* ------------------------------------------------------------------------
\* names of range(max_c) for both prefixes
PoolNames(max_c) == {SlotName(p, i) : p \in Prefixes, i \in 0..(max_c - 1)}

\* _cleanup_sources: with no current scene it returns at once; otherwise it
\* removes the items named prefix + i, i < max_circles, and clears the list
_cleanup_sources ==
    IF ~scene_ok
    THEN [scene_items |-> scene_items, active_clicks |-> _active_clicks]
    ELSE [scene_items |-> [n \in AllNames |->
                              IF n \in PoolNames(_settings.max_circles)
                              THEN "absent" ELSE scene_items[n]],
          active_clicks |-> <<>>]

\* script_unload: _stop_listener(), then _cleanup_sources()
script_unload ==
    /\ pc = "idle"
    /\ _listener' = None
    /\ _timer_active' = FALSE
    /\ scene_items' = _cleanup_sources.scene_items
    /\ _active_clicks' = _cleanup_sources.active_clicks
    /\ spawn_seq' = Ranked(spawn_seq, Names(_active_clicks'))
    /\ pc' = "unloaded"
    /\ UNCHANGED <<clock, callback, _click_queue, _settings, _retina_scale,
                   _all_displays, _captured_display, scene_ok, now, render,
                   nclicks, nconsumed, last_spawn, call>>

\* ------------------------------------------------------------------------
\* OBS: the current scene goes away (scene collection switching, shutdown)
\* or comes back
\* ------------------------------------------------------------------------
SceneChange ==
    /\ scene_ok' = ~scene_ok
    /\ UNCHANGED <<clock, callback, _listener, _timer_active, _click_queue,
                   _active_clicks, _settings, _retina_scale, _all_displays,
                   _captured_display, scene_items, pc, now, render, nclicks,
                   nconsumed, spawn_seq, last_spawn, call>>

\* ------------------------------------------------------------------------
\* Time
\* ------------------------------------------------------------------------
Tick ==
    /\ clock < MaxTime
    /\ clock' = clock + 1
    /\ UNCHANGED <<callback, _listener, _timer_active, _click_queue,
                   _active_clicks, _settings, _retina_scale, _all_displays,
                   _captured_display, scene_ok, scene_items, pc, now, render,
                   nclicks, nconsumed, spawn_seq, last_spawn, call>>

\* ------------------------------------------------------------------------
\* The program on any machine
\* ------------------------------------------------------------------------
Click == \E p \in Points, is_left \in BOOLEAN : OnClick(p[1], p[2], is_left)

ClickBegin == \E p \in Points, is_left \in BOOLEAN :
                  OnClickEnter(p[1], p[2], is_left)

Update == \E d \in DurationsMs, m \in 1..MaxCircles, o \in BOOLEAN,
             mon \in MonitorSizes, has_source \in BOOLEAN :
              script_update(d, m, o, mon, LayoutAnswers, has_source)

Refresh == \E has_source \in BOOLEAN : OnRefreshDisplays(LayoutAnswers, has_source)

Defaults == script_defaults(LayoutAnswers)

Next ==
    \/ Click
    \/ ClickBegin
    \/ OnClickAppend
    \/ StartListener
    \/ StopListener
    \/ Refresh
    \/ Update
    \/ Defaults
    \/ PollStart
    \/ PollTest
    \/ PollPop
    \/ PollExpire
    \/ PollReturn
    \/ script_unload
    \/ SceneChange
    \/ Tick

Spec == Init /\ [][Next]_vars

\* ------------------------------------------------------------------------
\* The program on a machine with one monitor and no capture source chosen,
\* with the duration setting left as it is and the monitor size overridden
\* with its default: every operation, the display enumeration returning the
\* one display
\* ------------------------------------------------------------------------
ClickOne == \E p \in OnePoint, is_left \in BOOLEAN : OnClick(p[1], p[2], is_left)

UpdateOne == \E m \in 1..MaxCircles :
                 script_update(_settings.duration_ms, m, TRUE, DefaultMonitor,
                               OneMonitorAnswers, FALSE)

RefreshOne == OnRefreshDisplays(OneMonitorAnswers, FALSE)

DefaultsOne == script_defaults(OneMonitorAnswers)

NextPool ==
    \/ ClickOne
    \/ StartListener
    \/ StopListener
    \/ RefreshOne
    \/ UpdateOne
    \/ DefaultsOne
    \/ PollStart
    \/ PollTest
    \/ PollPop
    \/ PollExpire
    \/ PollReturn
    \/ Tick

SpecPool == Init /\ [][NextPool]_vars

\* ... with the timer callback running whenever the timer is registered and
\* the clock advancing up to MaxTime
SpecPoolLive ==
    /\ Init
    /\ [][NextPool]_vars
    /\ WF_vars(PollStart)
    /\ WF_vars(PollTest)
    /\ WF_vars(PollPop)
    /\ WF_vars(PollExpire)
    /\ WF_vars(PollReturn)
    /\ WF_vars(Tick)

\* ... and with max_circles never changed
UpdateSameMax == script_update(_settings.duration_ms, _settings.max_circles,
                               TRUE, DefaultMonitor, OneMonitorAnswers, FALSE)

NextFixed ==
    \/ ClickOne
    \/ StartListener
    \/ StopListener
    \/ RefreshOne
    \/ UpdateSameMax
    \/ DefaultsOne
    \/ PollStart
    \/ PollTest
    \/ PollPop
    \/ PollExpire
    \/ PollReturn
    \/ Tick

SpecFixed == Init /\ [][NextFixed]_vars

\* ------------------------------------------------------------------------
\* The program on any machine, within one second of the clock and with the
\* duration and max_circles settings left as they are and the monitor size
\* overridden with its default
\* ------------------------------------------------------------------------
UpdateSource == \E has_source \in BOOLEAN :
                    script_update(_settings.duration_ms, _settings.max_circles,
                                  TRUE, DefaultMonitor, LayoutAnswers, has_source)

NextDisplays ==
    \/ Click
    \/ StartListener
    \/ StopListener
    \/ Refresh
    \/ UpdateSource
    \/ Defaults
    \/ PollStart
    \/ PollTest
    \/ PollPop
    \/ PollExpire
    \/ PollReturn

SpecDisplays == Init /\ [][NextDisplays]_vars

\* ------------------------------------------------------------------------
\* The program on a machine with two monitors of different sizes and backing
\* scales, left clicks only, within one second of the clock and with the
\* duration and max_circles settings left as they are
\* ------------------------------------------------------------------------
ClickTwo == \E p \in TwoMonitorPoints : OnClick(p[1], p[2], TRUE)

UpdateTwo == \E o \in BOOLEAN, has_source \in BOOLEAN :
                 script_update(_settings.duration_ms, _settings.max_circles,
                               o, DefaultMonitor, TwoMonitorAnswers, has_source)

RefreshTwo == \E has_source \in BOOLEAN :
                  OnRefreshDisplays(TwoMonitorAnswers, has_source)

NextTwo ==
    \/ ClickTwo
    \/ StartListener
    \/ StopListener
    \/ RefreshTwo
    \/ UpdateTwo
    \/ PollStart
    \/ PollTest
    \/ PollPop
    \/ PollExpire
    \/ PollReturn

SpecTwo == Init /\ [][NextTwo]_vars

\* ------------------------------------------------------------------------
\* The settings and the displays on a machine with two monitors: the user
\* edits the monitor size and the override, chooses a capture source or none,
\* and the displays are enumerated again in between
\* ------------------------------------------------------------------------
UpdateNoted == \E o \in BOOLEAN, mon \in MonitorSizes, has_source \in BOOLEAN :
                   script_update_noted(_settings.duration_ms, _settings.max_circles,
                                       o, mon, TwoMonitorAnswers, has_source)

DefaultsTwo == script_defaults(TwoMonitorAnswers)

NextSettings ==
    \/ UpdateNoted
    \/ RefreshTwo
    \/ DefaultsTwo
    \/ StartListener
    \/ StopListener

SpecSettings == Init /\ [][NextSettings]_vars

\* ------------------------------------------------------------------------
\* The program on a machine with one monitor and no capture source chosen,
\* the duration setting and the displays left as they are, in an OBS whose
\* current scene can go away, up to the unloading of the script
\* ------------------------------------------------------------------------
NextScene ==
    \/ ClickOne
    \/ StartListener
    \/ StopListener
    \/ UpdateOne
    \/ PollStart
    \/ PollTest
    \/ PollPop
    \/ PollExpire
    \/ PollReturn
    \/ script_unload
    \/ SceneChange
    \/ Tick

SpecScene == Init /\ [][NextScene]_vars

\* ------------------------------------------------------------------------
\* The listener and the timer callback on a machine with one monitor, the
\* settings and the displays left as they are, with up to MaxBacklog events
\* waiting
\* ------------------------------------------------------------------------
ClickBacklog == \E p \in OnePoint, is_left \in BOOLEAN :
                    on_click(p[1], p[2], is_left, MaxBacklog)

NextQueue ==
    \/ ClickBacklog
    \/ StartListener
    \/ StopListener
    \/ PollStart
    \/ PollTest
    \/ PollPop
    \/ PollExpire
    \/ PollReturn
    \/ Tick

SpecQueue == Init /\ [][NextQueue]_vars

\* one turn of the loop's body: the step of PollPop seen on pc alone (at
\* pc = "pop" the queue is not empty, so PollPop can be taken)
DrainTurn == pc = "pop" /\ pc' = "test"

\* ... with the UI thread going on with the loop of _poll_clicks once OBS has
\* called it: it evaluates the loop's test and runs the loop's body
SpecQueueLive ==
    /\ Init
    /\ [][NextQueue]_vars
    /\ WF_vars(PollTest)
    /\ WF_pc(DrainTurn)

\* ------------------------------------------------------------------------
\* The listener thread switching to the UI thread inside on_click, on a
\* machine with one monitor, the settings and the displays left as they are
\* ------------------------------------------------------------------------
ClickEnter == \E p \in OnePoint, is_left \in BOOLEAN :
                  OnClickEnter(p[1], p[2], is_left)

NextListener ==
    \/ ClickEnter
    \/ OnClickAppend
    \/ StartListener
    \/ StopListener
    \/ PollStart
    \/ PollTest
    \/ PollPop
    \/ PollExpire
    \/ PollReturn
    \/ Tick

SpecListener == Init /\ [][NextListener]_vars

\* ------------------------------------------------------------------------
\* The Start and Stop buttons as whole handlers, with the number of
\* registrations of _poll_clicks in OBS's timer list kept in call.timers
\* ------------------------------------------------------------------------
\* what _start_listener and _stop_listener read and write
Lifecycle(listener, timer_active, timers) == [_listener |-> listener, _timer_active |-> timer_active, timers |-> timers]

\* _start_listener: returns when a listener is running; returns when the
\* import of pynput fails; otherwise creates and starts the listener and,
\* if the timer is not active, adds it
_start_listener(s, pynput) ==
    IF s._listener # None THEN s
    ELSE IF ~pynput THEN s
    ELSE Lifecycle("Listener",
                   TRUE,
                   IF ~s._timer_active THEN s.timers + 1 ELSE s.timers)

\* a stop that leaves the timer registered
_stop_listener_KeepTimer(s) == Lifecycle(None, s._timer_active, s.timers)

\* _stop_listener: stops and forgets the listener if there is one, removes
\* the timer if it is active
_stop_listener(s) ==
    Lifecycle(None,
              FALSE,
              IF s._timer_active THEN s.timers - 1 ELSE s.timers)

InitLifecycle ==
    /\ InitRouter
    /\ call = [fn |-> "script_load", done |-> TRUE, pynput |-> TRUE,
               before |-> Lifecycle(None, FALSE, 0), timers |-> 0]

StartListenerCall ==
    /\ pc = "idle"
    /\ \E pynput \in BOOLEAN :
          LET s == Lifecycle(_listener, _timer_active, call.timers)
              t == _start_listener(s, pynput)
          IN  /\ _listener' = t._listener
              /\ _timer_active' = t._timer_active
              /\ call' = [fn |-> "_start_listener", done |-> TRUE,
                          pynput |-> pynput, before |-> s,
                          timers |-> t.timers]
    /\ UNCHANGED <<clock, callback, _click_queue, _active_clicks, _settings,
                   _retina_scale, _all_displays, _captured_display, scene_ok,
                   scene_items, pc, now, render, nclicks, nconsumed,
                   spawn_seq, last_spawn>>

StopListenerCall ==
    /\ pc = "idle"
    /\ LET s == Lifecycle(_listener, _timer_active, call.timers)
           t == _stop_listener(s)
       IN  /\ _listener' = t._listener
           /\ _timer_active' = t._timer_active
           /\ call' = [fn |-> "_stop_listener", done |-> TRUE,
                       pynput |-> TRUE, before |-> s, timers |-> t.timers]
    /\ UNCHANGED <<clock, callback, _click_queue, _active_clicks, _settings,
                   _retina_scale, _all_displays, _captured_display, scene_ok,
                   scene_items, pc, now, render, nclicks, nconsumed,
                   spawn_seq, last_spawn>>

NextLifecycle ==
    \/ ClickEnter
    \/ OnClickAppend
    \/ StartListenerCall
    \/ StopListenerCall
    \/ PollStart
    \/ PollTest
    \/ PollPop
    \/ PollExpire
    \/ PollReturn
    \/ Tick

SpecLifecycle == InitLifecycle /\ [][NextLifecycle]_vars

\* ------------------------------------------------------------------------
\* Both threads with every writer of the shared state: the listener inside
\* on_click, the timer callback, the settings and the unload on the UI thread
\* ------------------------------------------------------------------------
NextWriters ==
    \/ ClickEnter
    \/ OnClickAppend
    \/ StartListener
    \/ StopListener
    \/ UpdateSameMax
    \/ PollStart
    \/ PollTest
    \/ PollPop
    \/ PollExpire
    \/ PollReturn
    \/ script_unload
    \/ Tick

SpecWriters == Init /\ [][NextWriters]_vars

\* ------------------------------------------------------------------------
\* The program on a machine with one monitor, a capture source chosen or
\* not, within one second of the clock and with the duration and max_circles
\* settings left as they are
\* ------------------------------------------------------------------------
UpdateSingle == \E o \in BOOLEAN, mon \in MonitorSizes, has_source \in BOOLEAN :
                    script_update(_settings.duration_ms, _settings.max_circles,
                                  o, mon, AnywhereAnswers, has_source)

RefreshSingle == \E has_source \in BOOLEAN :
                     OnRefreshDisplays(AnywhereAnswers, has_source)

DefaultsSingle == script_defaults(AnywhereAnswers)

NextSingle ==
    \/ Click
    \/ StartListener
    \/ StopListener
    \/ RefreshSingle
    \/ UpdateSingle
    \/ DefaultsSingle
    \/ PollStart
    \/ PollTest
    \/ PollPop
    \/ PollExpire
    \/ PollReturn

SpecSingle == Init /\ [][NextSingle]_vars

\* ------------------------------------------------------------------------
\* The core functions called on their own: the arguments are drawn at Init,
\* the call is the one step
\* ------------------------------------------------------------------------
AllocCall(prefix, max_circles, active_clicks) ==
    LET r == allocate_slot(prefix, max_circles, active_clicks)
    IN  [fn |-> "allocate_slot", done |-> TRUE,
         prefix |-> prefix, max_circles |-> max_circles,
         active_clicks |-> active_clicks,
         slot_name |-> r.slot_name, evicted |-> r.evicted,
         active_after |-> r.active_clicks]

ExpireCall(active_clicks, t) ==
    LET r == expire_circles(active_clicks, t)
    IN  [fn |-> "expire_circles", done |-> TRUE,
         active_clicks |-> active_clicks, now |-> t,
         still_active |-> r.still_active, expired_names |-> r.expired_names,
         active_after |-> r.active_clicks]

\* sequences of length at most MaxLen over S, no element twice
DistinctSeqs(S) ==
    UNION {{q \in [1..n -> S] : \A i, j \in 1..n : i # j => q[i] # q[j]} :
              n \in 0..MaxLen}

\* names of both prefixes, with indices up to and beyond the capacity
CoreNames == {SlotName(p, i) : p \in Prefixes, i \in 0..MaxCircles}
\* lists of entries with distinct names; allocate_slot never reads the
\* expire times, entry k expires at k
AllocLists == {[k \in DOMAIN q |-> <<q[k], k>>] : q \in DistinctSeqs(CoreNames)}

\* names of one prefix, every list of entries with distinct names over them
ExpireNames == {SlotName(PREFIX_L, i) : i \in 0..(MaxLen - 1)}
CoreTimes == 0..(MaxTime + 1)
ExpireLists ==
    UNION {{[k \in DOMAIN q |-> <<q[k], e[k]>>] : e \in [DOMAIN q -> CoreTimes]} :
              q \in DistinctSeqs(ExpireNames)}

InitCore ==
    /\ InitRouter
    /\ \/ \E prefix \in Prefixes, c \in 1..MaxCircles, a \in AllocLists :
             call = [fn |-> "allocate_slot", done |-> FALSE, prefix |-> prefix,
                     max_circles |-> c, active_clicks |-> a]
       \/ \E a \in ExpireLists, t \in CoreTimes :
             call = [fn |-> "expire_circles", done |-> FALSE,
                     active_clicks |-> a, now |-> t]

CoreAllocate ==
    /\ call.fn = "allocate_slot"
    /\ ~call.done
    /\ call' = AllocCall(call.prefix, call.max_circles, call.active_clicks)
    /\ UNCHANGED <<clock, callback, _listener, _timer_active, _click_queue,
                   _active_clicks, _settings, _retina_scale, _all_displays,
                   _captured_display, scene_ok, scene_items, pc, now, render,
                   nclicks, nconsumed, spawn_seq, last_spawn>>

CoreExpire ==
    /\ call.fn = "expire_circles"
    /\ ~call.done
    /\ call' = ExpireCall(call.active_clicks, call.now)
    /\ UNCHANGED <<clock, callback, _listener, _timer_active, _click_queue,
                   _active_clicks, _settings, _retina_scale, _all_displays,
                   _captured_display, scene_ok, scene_items, pc, now, render,
                   nclicks, nconsumed, spawn_seq, last_spawn>>

NextCore ==
    \/ CoreAllocate
    \/ CoreExpire

SpecCore == InitCore /\ [][NextCore]_vars

\* ------------------------------------------------------------------------
\* The functions of the geometry and of the callbacks called on their own:
\* the arguments are drawn at Init, the call is the one step
\* ------------------------------------------------------------------------
\* display rectangles of the calls: origins and sizes on both axes, so that
\* rectangles overlap, touch and leave gaps
RectOrigins == {0, 1}
RectSizes == {1, 2}
Rects == {Display(0, x, y, w, h, 0) :
              x \in RectOrigins, y \in RectOrigins, w \in RectSizes, h \in RectSizes}
\* sequences of at most MaxDisplays rectangles; the k-th dict has id k
DisplayLists ==
    UNION {{[k \in 1..n |-> [q[k] EXCEPT !.id = k]] : q \in [1..n -> Rects]} :
              n \in 0..MaxDisplays}
\* points inside, on the edges of and outside the rectangles
CallCoords == (0 - 1)..3

\* arguments of map_coords: points, canvas and monitor sizes, diameters
MapPoints == {<<0, 0>>, <<3, 1>>, <<0 - 1, 2>>}
CanvasSizes == {<<4, 2>>, <<3, 3>>}
MapMonitors == {<<2, 1>>, <<4, 4>>}
Diameters == {1, 2}
\* no capture transform: every keyword argument left at its default
NoTransform ==
    [crop_left |-> Num(0), crop_top |-> Num(0),
     capture_pos_x |-> Num(0), capture_pos_y |-> Num(0),
     capture_scale_x |-> NoScale, capture_scale_y |-> NoScale]
\* crop 0, position 0 and the scale canvas size / monitor size, given
\* explicitly
PlainTransform(canvas, monitor) ==
    [crop_left |-> Num(0), crop_top |-> Num(0),
     capture_pos_x |-> Num(0), capture_pos_y |-> Num(0),
     capture_scale_x |-> Frac(canvas[1], monitor[1]),
     capture_scale_y |-> Frac(canvas[2], monitor[2])]
\* the capture transforms of the calls
Transforms(canvas, monitor) ==
    {NoTransform, PlainTransform(canvas, monitor)} \cup
    {[crop_left |-> Num(crop[1]), crop_top |-> Num(crop[2]),
      capture_pos_x |-> Num(pos[1]), capture_pos_y |-> Num(pos[2]),
      capture_scale_x |-> scale[1], capture_scale_y |-> scale[2]] :
        crop \in {<<0, 0>>, <<1, 2>>}, pos \in {<<0, 0>>, <<2, 1>>},
        scale \in {<<Num(1), Num(1)>>, <<Frac(1, 2), Num(2)>>}}

\* the arguments of the two worked calls: a 1920x1080 canvas and monitor,
\* diameter 80, without a transform and with the left half cropped away
MapExamples ==
    {[point |-> <<960, 540>>, canvas |-> <<1920, 1080>>,
      monitor |-> <<1920, 1080>>, diameter |-> 80, transform |-> NoTransform],
     [point |-> <<1440, 540>>, canvas |-> <<1920, 1080>>,
      monitor |-> <<1920, 1080>>, diameter |-> 80,
      transform |-> [crop_left |-> Num(960), crop_top |-> Num(0),
                     capture_pos_x |-> Num(0), capture_pos_y |-> Num(0),
                     capture_scale_x |-> Num(1), capture_scale_y |-> Num(1)]]}

MapArguments ==
    MapExamples \cup
    UNION {{[point |-> point, canvas |-> canvas, monitor |-> monitor,
             diameter |-> diameter, transform |-> t] :
               point \in MapPoints, diameter \in Diameters,
               t \in Transforms(canvas, monitor)} :
             canvas \in CanvasSizes, monitor \in MapMonitors}

\* map_coords(x, y, canvas_w, canvas_h, monitor_w, monitor_h, circle_size,
\* **transform)
MapResult(a, t) ==
    map_coords(Num(a.point[1]), Num(a.point[2]), Num(a.canvas[1]), Num(a.canvas[2]), Num(a.monitor[1]), Num(a.monitor[2]), Num(a.diameter), t.crop_left, t.crop_top, t.capture_pos_x, t.capture_pos_y, t.capture_scale_x, t.capture_scale_y)

MapCall(a) ==
    [fn |-> "map_coords", done |-> TRUE, args |-> a,
     result |-> MapResult(a, a.transform)]

\* the same point mapped twice: without a transform, and with the transform
\* PlainTransform
MapTwiceCall(a) ==
    [fn |-> "map_coords twice", done |-> TRUE, args |-> a,
     implicit |-> MapResult(a, NoTransform),
     explicit |-> MapResult(a, PlainTransform(a.canvas, a.monitor))]

\* backing scales of a display
Retinas == {1, 2, 3}

\* obs_x, obs_y of a spawn: map_coords called with the scaled point and
\* monitor size, the canvas size, the diameter and the transform t
SpawnPosition(geometry, canvas, diameter, t) ==
    LET m == mapper_arguments(geometry)
    IN  map_coords(Num(m.phys_x), Num(m.phys_y), Num(canvas[1]), Num(canvas[2]), Num(m.phys_mon_w), Num(m.phys_mon_h), Num(diameter), t.crop_left, t.crop_top, t.capture_pos_x, t.capture_pos_y, t.capture_scale_x, t.capture_scale_y)

\* the position of a spawn on a display of backing scale retina, the
\* position with backing scale 1, and the positions map_coords gives for
\* the same scaled point and every monitor size
ScaledCall(a, retina) ==
    LET geometry(r) == [local_x |-> a.point[1], local_y |-> a.point[2],
                        mon_w |-> a.monitor[1], mon_h |-> a.monitor[2],
                        retina |-> r]
        t == a.transform
    IN  [fn |-> "spawn position", done |-> TRUE, args |-> a, retina |-> retina,
         scaled |-> SpawnPosition(geometry(retina), a.canvas, a.diameter, t),
         plain  |-> SpawnPosition(geometry(1), a.canvas, a.diameter, t),
         any_monitor |->
            {map_coords(Num(a.point[1] * retina), Num(a.point[2] * retina), Num(a.canvas[1]), Num(a.canvas[2]), Num(mon[1]), Num(mon[2]), Num(a.diameter), t.crop_left, t.crop_top, t.capture_pos_x, t.capture_pos_y, t.capture_scale_x, t.capture_scale_y) :
                mon \in MapMonitors}]

\* ------------------------------------------------------------------------
\* The OBS calls that take and give back a reference, in the order in which
\* an operation makes them
\* ------------------------------------------------------------------------
\* obs_frontend_get_current_scene / obs_get_source_by_name / obs_source_create
Acquire(ref) == [op |-> "acquire", ref |-> ref]
\* obs_source_release
Release(ref) == [op |-> "release", ref |-> ref]

\* _get_current_scene
calls_get_current_scene == <<Acquire("scene_source"), Release("scene_source")>>

\* a _show_source that keeps the source it added to the scene
calls_show_source_NoRelease(has_scene, in_scene) ==
    calls_get_current_scene \o
    (IF has_scene /\ ~in_scene THEN <<Acquire("source")>> ELSE << >>)

\* _show_source(name, ...): nothing after the early return; the source is
\* looked up globally or created, and released after obs_scene_add, when the
\* scene has no item of that name; obs_sceneitem_get_source takes no reference
calls_show_source(has_scene, in_scene) ==
    calls_get_current_scene \o
    (IF has_scene /\ ~in_scene THEN <<Acquire("source"), Release("source")>>
     ELSE << >>)

\* _hide_source(name)
calls_hide_source == calls_get_current_scene

\* the loop of _cleanup_sources over the names: found_globally[k] tells
\* whether obs_get_source_by_name finds the k-th name
RECURSIVE calls_cleanup_loop(_, _)
calls_cleanup_loop(found_globally, k) ==
    IF k > Len(found_globally) THEN << >>
    ELSE (IF found_globally[k] THEN <<Acquire("source"), Release("source")>>
          ELSE << >>) \o calls_cleanup_loop(found_globally, k + 1)

\* _cleanup_sources
calls_cleanup_sources(has_scene, found_globally) ==
    calls_get_current_scene \o
    (IF has_scene THEN calls_cleanup_loop(found_globally, 1) ELSE << >>)

\* _spawn_circle: nothing when the click is discarded; otherwise the hide of
\* the evicted name, the scene source taken for the canvas size and given
\* back, and the show
calls_spawn_circle(discard, evicts, has_scene, in_scene) ==
    IF discard THEN << >>
    ELSE (IF evicts THEN calls_hide_source ELSE << >>) \o
         <<Acquire("scene_source"), Release("scene_source")>> \o
         calls_show_source(has_scene, in_scene)

\* the operations and the paths through them
ObsPaths ==
    [operation : {"_get_current_scene", "_spawn_circle", "_show_source",
                  "_hide_source", "_cleanup_sources"},
     discard : BOOLEAN, evicts : BOOLEAN, has_scene : BOOLEAN,
     in_scene : BOOLEAN, found_globally : [1..(2 * MaxCircles) -> BOOLEAN]]

ObsCall(a) ==
    [fn |-> "obs calls", done |-> TRUE, args |-> a,
     calls |-> CASE a.operation = "_get_current_scene" -> calls_get_current_scene
                 [] a.operation = "_spawn_circle" ->
                      calls_spawn_circle(a.discard, a.evicts, a.has_scene, a.in_scene)
                 [] a.operation = "_show_source" ->
                      calls_show_source(a.has_scene, a.in_scene)
                 [] a.operation = "_hide_source" -> calls_hide_source
                 [] a.operation = "_cleanup_sources" ->
                      calls_cleanup_sources(a.has_scene, a.found_globally)]

\* the queue on_click finds: empty, or holding an earlier press
CallQueues == {<< >>, <<<<1, 0, FALSE, 0, 1>>>>}

ClickCall(queue, x, y, button, pressed, t) ==
    [fn |-> "on_click", done |-> TRUE, queue |-> queue, x |-> x, y |-> y,
     button |-> button, pressed |-> pressed, t |-> t,
     queue_after |-> on_click_append(queue, x, y, button, pressed, t, Len(queue) + 1)]

FindCall(x, y, displays) ==
    [fn |-> "find_display_for_point", done |-> TRUE,
     x |-> x, y |-> y, displays |-> displays,
     result |-> find_display_for_point(x, y, displays),
     displays_after |-> displays]

\* the same dicts in another order
Reordered(displays, p) == [k \in 1..Len(displays) |-> displays[p[k]]]

\* find_display_for_point(x, y, q) for every ordering q of the list
ReorderedCall(x, y, displays) ==
    [fn |-> "find_display_for_point reordered", done |-> TRUE,
     x |-> x, y |-> y, displays |-> displays,
     found |-> {find_display_for_point(x, y, Reordered(displays, p)) :
                   p \in Permutations(1..Len(displays))}]

InitCalls ==
    /\ InitRouter
    /\ \/ \E x \in CallCoords, y \in CallCoords, displays \in DisplayLists :
             call = [fn |-> "find_display_for_point", done |-> FALSE,
                     x |-> x, y |-> y, displays |-> displays]
       \/ \E x \in CallCoords, y \in CallCoords, displays \in DisplayLists :
             call = [fn |-> "find_display_for_point reordered", done |-> FALSE,
                     x |-> x, y |-> y, displays |-> displays]
       \/ \E queue \in CallQueues, point \in Points, button \in Buttons,
             pressed \in BOOLEAN, t \in 0..MaxTime :
             call = [fn |-> "on_click", done |-> FALSE, queue |-> queue,
                     x |-> point[1], y |-> point[2], button |-> button,
                     pressed |-> pressed, t |-> t]
       \/ \E a \in ObsPaths :
             call = [fn |-> "obs calls", done |-> FALSE, args |-> a]
       \/ \E a \in MapArguments :
             call = [fn |-> "map_coords", done |-> FALSE, args |-> a]
       \/ \E a \in MapArguments :
             /\ a.transform = NoTransform
             /\ call = [fn |-> "map_coords twice", done |-> FALSE, args |-> a]
       \/ \E a \in MapArguments, retina \in Retinas :
             call = [fn |-> "spawn position", done |-> FALSE, args |-> a,
                     retina |-> retina]

CallFind ==
    /\ call.fn = "find_display_for_point"
    /\ ~call.done
    /\ call' = FindCall(call.x, call.y, call.displays)
    /\ UNCHANGED <<clock, callback, _listener, _timer_active, _click_queue,
                   _active_clicks, _settings, _retina_scale, _all_displays,
                   _captured_display, scene_ok, scene_items, pc, now, render,
                   nclicks, nconsumed, spawn_seq, last_spawn>>

CallFindReordered ==
    /\ call.fn = "find_display_for_point reordered"
    /\ ~call.done
    /\ call' = ReorderedCall(call.x, call.y, call.displays)
    /\ UNCHANGED <<clock, callback, _listener, _timer_active, _click_queue,
                   _active_clicks, _settings, _retina_scale, _all_displays,
                   _captured_display, scene_ok, scene_items, pc, now, render,
                   nclicks, nconsumed, spawn_seq, last_spawn>>

CallMap ==
    /\ call.fn = "map_coords"
    /\ ~call.done
    /\ call' = MapCall(call.args)
    /\ UNCHANGED <<clock, callback, _listener, _timer_active, _click_queue,
                   _active_clicks, _settings, _retina_scale, _all_displays,
                   _captured_display, scene_ok, scene_items, pc, now, render,
                   nclicks, nconsumed, spawn_seq, last_spawn>>

CallMapTwice ==
    /\ call.fn = "map_coords twice"
    /\ ~call.done
    /\ call' = MapTwiceCall(call.args)
    /\ UNCHANGED <<clock, callback, _listener, _timer_active, _click_queue,
                   _active_clicks, _settings, _retina_scale, _all_displays,
                   _captured_display, scene_ok, scene_items, pc, now, render,
                   nclicks, nconsumed, spawn_seq, last_spawn>>

CallScaled ==
    /\ call.fn = "spawn position"
    /\ ~call.done
    /\ call' = ScaledCall(call.args, call.retina)
    /\ UNCHANGED <<clock, callback, _listener, _timer_active, _click_queue,
                   _active_clicks, _settings, _retina_scale, _all_displays,
                   _captured_display, scene_ok, scene_items, pc, now, render,
                   nclicks, nconsumed, spawn_seq, last_spawn>>

CallClick ==
    /\ call.fn = "on_click"
    /\ ~call.done
    /\ call' = ClickCall(call.queue, call.x, call.y, call.button, call.pressed, call.t)
    /\ UNCHANGED <<clock, callback, _listener, _timer_active, _click_queue,
                   _active_clicks, _settings, _retina_scale, _all_displays,
                   _captured_display, scene_ok, scene_items, pc, now, render,
                   nclicks, nconsumed, spawn_seq, last_spawn>>

CallObs ==
    /\ call.fn = "obs calls"
    /\ ~call.done
    /\ call' = ObsCall(call.args)
    /\ UNCHANGED <<clock, callback, _listener, _timer_active, _click_queue,
                   _active_clicks, _settings, _retina_scale, _all_displays,
                   _captured_display, scene_ok, scene_items, pc, now, render,
                   nclicks, nconsumed, spawn_seq, last_spawn>>

NextCalls ==
    \/ CallObs
    \/ CallClick
    \/ CallFind
    \/ CallFindReordered
    \/ CallMap
    \/ CallMapTwice
    \/ CallScaled

SpecCalls == InitCalls /\ [][NextCalls]_vars

\* ------------------------------------------------------------------------
\* Display detection on a machine whose enumeration can fail: the function
\* called on its own, next to the handlers that enumerate the displays
\* ------------------------------------------------------------------------
\* the enumeration raises, returns nothing, or returns one or two displays
Platforms == {Raises} \cup Answers({<< >>, SingleLayout, DualLayout})

DetectCall(platform) ==
    [fn |-> "_detect_all_displays", done |-> TRUE, platform |-> platform,
     result |-> _detect_all_displays(platform)]

InitDetect ==
    /\ InitRouter
    /\ \E platform \in Platforms :
          call = [fn |-> "_detect_all_displays", done |-> FALSE,
                  platform |-> platform]

CallDetect ==
    /\ call.fn = "_detect_all_displays"
    /\ ~call.done
    /\ call' = DetectCall(call.platform)
    /\ UNCHANGED <<clock, callback, _listener, _timer_active, _click_queue,
                   _active_clicks, _settings, _retina_scale, _all_displays,
                   _captured_display, scene_ok, scene_items, pc, now, render,
                   nclicks, nconsumed, spawn_seq, last_spawn>>

UpdateDetect == \E d \in DurationsMs, m \in 1..MaxCircles, has_source \in BOOLEAN :
                    script_update(d, m, FALSE, DefaultMonitor, Platforms, has_source)

RefreshDetect == \E has_source \in BOOLEAN : OnRefreshDisplays(Platforms, has_source)

DefaultsDetect == script_defaults(Platforms)

NextDetect ==
    \/ CallDetect
    \/ UpdateDetect
    \/ RefreshDetect
    \/ DefaultsDetect

SpecDetect == InitDetect /\ [][NextDetect]_vars

TypeOK ==
    /\ clock \in 0..MaxTime
    /\ pc \in {"idle", "test", "pop", "expire", "done", "unloaded"}
    /\ Len(_click_queue) <= MaxClicks
    /\ nclicks \in 0..MaxClicks


\* ------------------------------------------------------------------------
\* Vocabulary of the properties (defined apart from the operators above)
\* ------------------------------------------------------------------------
MinOf(S) == CHOOSE m \in S : \A k \in S : m <= k

\* the name is the prefix followed by something
HasPrefix(n, prefix) ==
    /\ Len(n) > Len(prefix)
    /\ \A k \in 1..Len(prefix) : n[k] = prefix[k]

PrefixOf(is_left) == IF is_left THEN PREFIX_L ELSE PREFIX_R
OtherPrefix(prefix) == IF prefix = PREFIX_L THEN PREFIX_R ELSE PREFIX_L

\* indices below capacity whose name is not in the list
AbsentIndices(prefix, capacity, active) ==
    {i \in 0..(capacity - 1) : SlotName(prefix, i) \notin Names(active)}

\* positions of the entries with the prefix
PositionsOf(prefix, active) ==
    {k \in 1..Len(active) : HasPrefix(active[k][1], prefix)}

EntriesOf(prefix, active) == SelectSeq(active, LAMBDA e : HasPrefix(e[1], prefix))

Without(active, k) == [j \in 1..(Len(active) - 1) |->
                          IF j < k THEN active[j] ELSE active[j + 1]]

\* ------------------------------------------------------------------------
\* C1..C10
\* ------------------------------------------------------------------------

\* C1: allocate_slot, when some index below capacity is absent from active,
\* returns (prefix + m, None) for the smallest absent m and leaves active as
\* it was.
C1_GapFilling ==
    (call.fn = "allocate_slot" /\ call.done) =>
        LET absent == AbsentIndices(call.prefix, call.max_circles, call.active_clicks)
        IN  absent # {} =>
              /\ call.slot_name = SlotName(call.prefix, MinOf(absent))
              /\ call.evicted = NoName
              /\ call.active_after = call.active_clicks

\* a call that filled a gap below an index in use
C1_Witness ==
    /\ call.fn = "allocate_slot"
    /\ call.done
    /\ LET absent == AbsentIndices(call.prefix, call.max_circles, call.active_clicks)
       IN  /\ absent # {}
           /\ \E j \in 0..(call.max_circles - 1) :
                 /\ j > MinOf(absent)
                 /\ SlotName(call.prefix, j) \in Names(call.active_clicks)
           /\ call.slot_name = SlotName(call.prefix, MinOf(absent))

\* C2: allocate_slot on a full pool removes exactly the first entry with the
\* prefix, returns its name as slot name and as evicted name, leaves the
\* other entries in order, and a repeated call returns the same slot name
\* with no eviction.  Stated of the call the router is about to make.
C2_EvictThenRepeat ==
    (pc = "pop" /\ _click_queue # <<>>) =>
        LET prefix == PrefixOf(Head(_click_queue)[3])
            cap    == _settings.max_circles
            r      == allocate_slot(prefix, cap, _active_clicks)
            again  == allocate_slot(prefix, cap, r.active_clicks)
        IN  AbsentIndices(prefix, cap, _active_clicks) = {} =>
              LET k == MinOf(PositionsOf(prefix, _active_clicks))
              IN  /\ r.slot_name = _active_clicks[k][1]
                  /\ r.evicted = _active_clicks[k][1]
                  /\ r.active_clicks = Without(_active_clicks, k)
                  /\ again.slot_name = r.slot_name
                  /\ again.evicted = NoName

\* C3: _active_clicks is ordered by spawn order, and a spawn that evicts
\* evicts the earliest-spawned live marker of its button type.
C3_FifoPerPrefix ==
    /\ \A i, j \in 1..Len(_active_clicks) :
          i < j => /\ 0 < spawn_seq[_active_clicks[i][1]]
                   /\ spawn_seq[_active_clicks[i][1]] < spawn_seq[_active_clicks[j][1]]
    /\ (last_spawn.valid /\ ~last_spawn.discarded /\ last_spawn.evicted # NoName)
          => last_spawn.evicted_rank = 1

\* a spawn has just evicted while another marker of its type stays live
C3_Witness ==
    /\ last_spawn.valid
    /\ ~last_spawn.discarded
    /\ last_spawn.evicted # NoName
    /\ Cardinality(PositionsOf(last_spawn.prefix, _active_clicks)) >= 2

\* C4: with max_circles constant, at most max_circles entries of each prefix.
C4_PoolBounded ==
    \A prefix \in Prefixes :
        Cardinality(PositionsOf(prefix, _active_clicks)) <= _settings.max_circles

\* a spawn has just evicted from a pool of two that is full again
C4_Witness ==
    /\ last_spawn.valid
    /\ ~last_spawn.discarded
    /\ last_spawn.evicted # NoName
    /\ _settings.max_circles = 2
    /\ Cardinality(PositionsOf(last_spawn.prefix, _active_clicks)) = 2

\* C5: every slot name a spawn gets from allocate_slot is prefix + index with
\* 0 <= index < max_circles, also after max_circles was changed.
C5_SlotInRange ==
    (last_spawn.valid /\ ~last_spawn.discarded) =>
        \E i \in 0..(last_spawn.max_c - 1) :
            last_spawn.slot_name = SlotName(last_spawn.prefix, i)

\* C6: a spawn for one button leaves the entries of the other button's prefix
\* as they are, sends no hide request for a name of that prefix, and evicts
\* nothing while an index of its own prefix is free.
C6_NoCompetition ==
    [][ (pc = "pop" /\ pc' = "test") =>
          LET prefix == PrefixOf(Head(_click_queue)[3])
              other  == OtherPrefix(prefix)
              sent   == SubSeq(render', Len(render) + 1, Len(render'))
          IN  /\ EntriesOf(other, _active_clicks') = EntriesOf(other, _active_clicks)
              /\ \A k \in 1..Len(sent) :
                    sent[k].op = "hide" => ~HasPrefix(sent[k].name, other)
              /\ AbsentIndices(prefix, _settings.max_circles, _active_clicks) # {}
                    => /\ \A k \in 1..Len(sent) : sent[k].op # "hide"
                       /\ Len(_active_clicks') = Len(_active_clicks) + 1
      ]_vars

\* a spawn got a free slot while the pool of the other button was full
C6_Witness ==
    /\ last_spawn.valid
    /\ ~last_spawn.discarded
    /\ last_spawn.evicted = NoName
    /\ Cardinality(PositionsOf(OtherPrefix(last_spawn.prefix), _active_clicks))
          = _settings.max_circles

\* C7: expire_circles puts an entry among the expired exactly when
\* now >= expire_at (equality expires, greater is kept).
C7_ExpiryBoundary ==
    (call.fn = "expire_circles" /\ call.done) =>
        \A k \in 1..Len(call.active_clicks) :
            LET e == call.active_clicks[k]
            IN  /\ (call.now >= e[2]) <=>
                      (\E j \in 1..Len(call.expired_names) : call.expired_names[j] = e[1])
                /\ (call.now < e[2]) <=>
                      (\E j \in 1..Len(call.still_active) : call.still_active[j] = e)

\* a call with an entry expiring exactly at now and an entry kept
C7_Witness ==
    /\ call.fn = "expire_circles"
    /\ call.done
    /\ \E k \in 1..Len(call.active_clicks) :
          /\ call.active_clicks[k][2] = call.now
          /\ \E j \in 1..Len(call.expired_names) :
                call.expired_names[j] = call.active_clicks[k][1]
    /\ \E k \in 1..Len(call.active_clicks) :
          /\ call.active_clicks[k][2] > call.now
          /\ \E j \in 1..Len(call.still_active) :
                call.still_active[j] = call.active_clicks[k]

\* C8: expire_circles leaves active as it was; still_active is the
\* subsequence of the entries not expired, expired_names the names of the
\* expired ones, both in the original order, and the lengths add up.
C8_ExpiryPartition ==
    (call.fn = "expire_circles" /\ call.done) =>
        LET live == SelectSeq(call.active_clicks, LAMBDA e : ~(call.now >= e[2]))
            dead == SelectSeq(call.active_clicks, LAMBDA e : call.now >= e[2])
        IN  /\ call.active_after = call.active_clicks
            /\ call.still_active = live
            /\ call.expired_names = [k \in 1..Len(dead) |-> dead[k][1]]
            /\ Len(call.still_active) + Len(call.expired_names)
                  = Len(call.active_clicks)

\* a call that keeps two entries and expires one between them
C8_Witness ==
    /\ call.fn = "expire_circles"
    /\ call.done
    /\ Len(call.active_clicks) = 3
    /\ call.active_clicks[1][2] > call.now
    /\ call.active_clicks[2][2] <= call.now
    /\ call.active_clicks[3][2] > call.now
    /\ Len(call.still_active) = 2

\* C9: the expiry step of a tick sends one hide request for each entry with
\* expire_at <= now, in order, and replaces _active_clicks by the other
\* entries; when the tick completes every entry left has expire_at > now.
C9_TickExpires ==
    /\ [][ (pc = "expire" /\ pc' = "done") =>
             LET dead == SelectSeq(_active_clicks, LAMBDA e : e[2] <= now)
                 live == SelectSeq(_active_clicks, LAMBDA e : e[2] > now)
             IN  /\ render' = render \o [k \in 1..Len(dead) |-> HideReq(dead[k][1])]
                 /\ _active_clicks' = live
         ]_vars
    /\ [](pc = "done" =>
             \A k \in 1..Len(_active_clicks) : _active_clicks[k][2] > now)

\* a tick that showed a marker and hid it again as expired, and hid two
C9_Witness ==
    /\ pc = "done"
    /\ \E i, j \in 1..Len(render) :
          /\ i < j
          /\ render[i].op = "show"
          /\ render[j] = HideReq(render[i].name)
          /\ render[i].name \notin Names(_active_clicks)
    /\ Cardinality({k \in 1..Len(render) : render[k].op = "hide"}) >= 2

\* C10: a click is discarded exactly when more than one display is known, a
\* captured display is designated and the display the click hits (the first
\* display containing the point, or none) is not that display.
Contains(d, x, y) == d.x <= x /\ x < d.x + d.w /\ d.y <= y /\ y < d.y + d.h

HitDisplay(x, y) ==
    LET S == {k \in 1..Len(_all_displays) : Contains(_all_displays[k], x, y)}
    IN  IF S = {} THEN NoDisplay ELSE <<_all_displays[MinOf(S)]>>

C10_DiscardRule ==
    last_spawn.valid =>
        (last_spawn.discarded <=>
            /\ Len(_all_displays) > 1
            /\ _captured_display # NoDisplay
            /\ HitDisplay(last_spawn.x, last_spawn.y) # _captured_display)

\* a click in the dead zone was discarded, a captured display being designated
C10_Witness ==
    /\ last_spawn.valid
    /\ last_spawn.discarded
    /\ HitDisplay(last_spawn.x, last_spawn.y) = NoDisplay
    /\ _captured_display # NoDisplay

\* ------------------------------------------------------------------------
\* C11..C20
\* ------------------------------------------------------------------------

\* C11: a discarded click changes nothing: the spawn step of a discarded
\* event leaves _active_clicks as it was and sends no show or hide request.
C11_DiscardFrame ==
    [][ (pc = "pop" /\ pc' = "test" /\ last_spawn'.discarded) =>
          /\ _active_clicks' = _active_clicks
          /\ render' = render
      ]_vars

\* a click was discarded while the pool of its button was full
C11_Witness ==
    /\ last_spawn.valid
    /\ last_spawn.discarded
    /\ Cardinality(PositionsOf(last_spawn.prefix, _active_clicks))
          = _settings.max_circles

\* C12: with at most one display known no click is discarded, wherever it
\* is and whether or not a captured display is designated, and the event is
\* positioned from the raw coordinates with the monitor_w, monitor_h
\* settings and the global backing scale.
C12_SingleDisplay ==
    (last_spawn.valid /\ Len(_all_displays) <= 1) =>
        /\ ~last_spawn.discarded
        /\ last_spawn.geometry =
              [local_x |-> last_spawn.x, local_y |-> last_spawn.y,
               mon_w |-> _settings.monitor_w, mon_h |-> _settings.monitor_h,
               retina |-> _retina_scale]

\* a click outside the one display, which is designated as captured, whose
\* origin is not the desktop's and whose size is not the monitor setting
C12_Witness ==
    /\ last_spawn.valid
    /\ ~last_spawn.discarded
    /\ Len(_all_displays) = 1
    /\ _captured_display = <<_all_displays[1]>>
    /\ _all_displays[1].x # 0
    /\ _all_displays[1].w # _settings.monitor_w
    /\ HitDisplay(last_spawn.x, last_spawn.y) = NoDisplay

\* C13: a spawn that evicts sends the hide request for the evicted name
\* before the show request that reuses the name; a spawn that evicts nothing
\* sends no hide request.
C13_HideBeforeShow ==
    [][ (pc = "pop" /\ pc' = "test" /\ ~last_spawn'.discarded) =>
          LET sent == SubSeq(render', Len(render) + 1, Len(render'))
              ev   == last_spawn'.evicted
          IN  /\ ev # NoName =>
                    \E i, j \in 1..Len(sent) :
                        /\ i < j
                        /\ sent[i] = HideReq(ev)
                        /\ sent[j] = ShowReq(ev)
                        /\ \A k \in 1..(i - 1) : sent[k] # ShowReq(ev)
              /\ ev = NoName => \A k \in 1..Len(sent) : sent[k].op # "hide"
      ]_vars

\* a tick whose second spawn evicted the marker its first spawn had shown
C13_Witness ==
    /\ last_spawn.valid
    /\ last_spawn.evicted # NoName
    /\ Len(render) >= 3
    /\ render[Len(render) - 2] = ShowReq(last_spawn.evicted)
    /\ render[Len(render) - 1] = HideReq(last_spawn.evicted)
    /\ render[Len(render)] = ShowReq(last_spawn.slot_name)

\* C14: the spawn of an event that is not discarded appends exactly one
\* entry to the tail of _active_clicks; its name is the slot name
\* allocate_slot returned, the name the show request carries, and its
\* expire_at is the event's timestamp plus duration_ms / 1000.
C14_AppendOne ==
    [][ (pc = "pop" /\ pc' = "test" /\ ~last_spawn'.discarded) =>
          LET ev   == Head(_click_queue)
              sp   == last_spawn'
              n    == Len(_active_clicks')
              kept == IF sp.evicted = NoName THEN _active_clicks
                      ELSE SelectSeq(_active_clicks, LAMBDA e : e[1] # sp.evicted)
          IN  /\ n = Len(kept) + 1
              /\ SubSeq(_active_clicks', 1, n - 1) = kept
              /\ _active_clicks'[n][1] = sp.slot_name
              /\ _active_clicks'[n][2] * 1000 = ev[4] * 1000 + _settings.duration_ms
              /\ sp.slot_name =
                    allocate_slot(PrefixOf(ev[3]), _settings.max_circles,
                                  _active_clicks).slot_name
              /\ render'[Len(render')] = ShowReq(sp.slot_name)
              /\ Len(render') > Len(render)
      ]_vars

\* a spawn, one second after the press, of a marker that lasts two seconds
C14_Witness ==
    /\ last_spawn.valid
    /\ ~last_spawn.discarded
    /\ now = 1
    /\ _settings.duration_ms = 2000
    /\ _active_clicks # <<>>
    /\ _active_clicks[Len(_active_clicks)] = <<last_spawn.slot_name, 2>>

\* C15: when the current scene is unavailable during a spawn the event is
\* dropped: no marker is shown and _active_clicks gains no entry and loses
\* no entry.
C15_SceneUnavailable ==
    [][ (pc = "pop" /\ pc' = "test" /\ ~scene_ok) =>
          /\ _active_clicks' = _active_clicks
          /\ scene_items' = scene_items
      ]_vars

\* C16: with the listener appending while the tick pops, every event pushed
\* is consumed exactly once and in the order of the pushes: the events that
\* wait are the pushes not yet consumed, oldest first, and each pop consumes
\* the oldest of them.
C16_QueueFifo ==
    /\ [](/\ nconsumed + Len(_click_queue) = nclicks
          /\ \A k \in 1..Len(_click_queue) : _click_queue[k][5] = nconsumed + k)
    /\ [][ (pc = "pop" /\ pc' = "test") =>
             /\ last_spawn'.serial = nconsumed + 1
             /\ nconsumed' = nconsumed + 1
             /\ nclicks' = nclicks
             /\ _click_queue' = Tail(_click_queue)
         ]_vars

\* one tick has consumed the second press while the third and the fourth,
\* pushed during the drain, wait in order
C16_Witness ==
    /\ last_spawn.valid
    /\ last_spawn.serial = 2
    /\ nconsumed = 2
    /\ Len(render) >= 2
    /\ Len(_click_queue) = 2
    /\ _click_queue[1][5] = 3
    /\ _click_queue[2][5] = 4

\* C17: once _stop_listener has returned (and until the listener is started
\* again) no event is appended to the click queue, whatever on_click call
\* was running on the listener thread when it was stopped.
C17_NoPushAfterStop ==
    [][ (_listener = None /\ _listener' = None) =>
          Len(_click_queue') <= Len(_click_queue)
      ]_vars

\* C18: after script_unload has returned _active_clicks is empty, from every
\* state and also when the current scene cannot be obtained.
C18_ClearedOnUnload ==
    pc = "unloaded" => _active_clicks = <<>>

\* C19: after the cleanup of script_unload no visual object that a spawn
\* showed, of either prefix, is still in the scene.
C19_AllRemoved ==
    pc = "unloaded" => \A n \in AllNames : scene_items[n] = "absent"

\* C20: every marker a spawn made visible is hidden or removed once time has
\* passed its expire_at, the timer callback being run fairly and time
\* advancing: no sequence of start-listener, click, tick, stop-listener and
\* settings-update operations leaves it visible forever.  (A marker of the
\* name that is visible later with an expire_at still ahead is another
\* marker, shown by a later spawn.)
Overdue(n) ==
    \A k \in 1..Len(_active_clicks) :
        _active_clicks[k][1] = n => _active_clicks[k][2] <= clock

C20_Transient ==
    \A n \in AllNames :
        (scene_items[n] = "visible" /\ Overdue(n))
            ~> (scene_items[n] # "visible" \/ ~Overdue(n))


\* ------------------------------------------------------------------------
\* C21..C30
\* ------------------------------------------------------------------------
\* positions of the displays whose rectangle holds the point, left and top
\* edges included, right and bottom edges excluded
Holding(x, y, displays) == {k \in 1..Len(displays) : Contains(displays[k], x, y)}

\* C21: find_display_for_point returns the first display of the sequence
\* whose half-open rectangle holds the point, returns None when no display
\* holds it (dead zone, outside every display, empty sequence), and leaves
\* the sequence as it was.
C21_FirstMatch ==
    (call.fn = "find_display_for_point" /\ call.done) =>
        LET hits == Holding(call.x, call.y, call.displays)
        IN  /\ hits = {} => call.result = NoDisplay
            /\ hits # {} => call.result = <<call.displays[MinOf(hits)]>>
            /\ call.displays_after = call.displays

\* two displays hold the point, which lies on the left and top edge of the
\* first one: the first one is returned
C21_Witness ==
    /\ call.fn = "find_display_for_point"
    /\ call.done
    /\ Holding(call.x, call.y, call.displays) = {1, 2}
    /\ call.x = call.displays[1].x
    /\ call.y = call.displays[1].y
    /\ call.result = <<call.displays[1]>>
    /\ call.displays[1].x # call.displays[2].x

\* position + (point - crop) * scale - diameter / 2 on one axis
Mapped(point, crop, pos, scale, diameter) ==
    FSub(FAdd(pos, FMul(FSub(Num(point), crop), scale)), Frac(diameter, 2))

\* C22: map_coords returns, per axis, position + (point - crop) * scale -
\* diameter / 2, with the transform's crop, position and scale when one is
\* given and crop 0, position 0, scale canvas size / monitor size otherwise;
\* the two worked calls give (920, 500) and (440, 500).
C22_Mapping ==
    (call.fn = "map_coords" /\ call.done) =>
        LET a == call.args
            t == a.transform
            scale_x == IF t = NoTransform THEN Frac(a.canvas[1], a.monitor[1])
                       ELSE t.capture_scale_x
            scale_y == IF t = NoTransform THEN Frac(a.canvas[2], a.monitor[2])
                       ELSE t.capture_scale_y
        IN  /\ call.result[1] =
                   Mapped(a.point[1], t.crop_left, t.capture_pos_x, scale_x, a.diameter)
            /\ call.result[2] =
                   Mapped(a.point[2], t.crop_top, t.capture_pos_y, scale_y, a.diameter)
            /\ (a.point = <<960, 540>> /\ a.diameter = 80) =>
                   call.result = <<Num(920), Num(500)>>
            /\ (a.point = <<1440, 540>> /\ a.diameter = 80) =>
                   call.result = <<Num(440), Num(500)>>

\* a call with a crop, a position and a scale that is not 1, on a point that
\* is not the origin, with an odd diameter
C22_Witness ==
    /\ call.fn = "map_coords"
    /\ call.done
    /\ call.args.transform.crop_left = Num(1)
    /\ call.args.transform.capture_pos_x = Num(2)
    /\ call.args.transform.capture_scale_x = Frac(1, 2)
    /\ call.args.point = <<3, 1>>
    /\ call.args.diameter = 1
    /\ call.result = <<Frac(5, 2), Frac(0 - 3, 2)>>

\* C23: for every point, canvas size, positive monitor size and diameter,
\* map_coords with the explicit transform crop (0, 0), position (0, 0),
\* scale canvas size / monitor size returns what map_coords returns with no
\* transform.
C23_FallbackIsPlainTransform ==
    (call.fn = "map_coords twice" /\ call.done) => call.explicit = call.implicit

\* both calls made on a canvas that is not a multiple of the monitor, away
\* from the origin
C23_Witness ==
    /\ call.fn = "map_coords twice"
    /\ call.done
    /\ call.args.canvas = <<3, 3>>
    /\ call.args.monitor = <<4, 4>>
    /\ call.args.point = <<3, 1>>
    /\ call.explicit = call.implicit

\* C24: _detect_all_displays returns at least one display, and when the
\* platform's enumeration raises or returns nothing it returns exactly the
\* default display, 1920x1080 at (0, 0) with scale 1; so every enumeration
\* made by _refresh_displays or _detect_screen_size leaves _all_displays
\* with at least one display.
C24_NeverEmpty ==
    /\ [](  (call.fn = "_detect_all_displays" /\ call.done) =>
               /\ Len(call.result) >= 1
               /\ (call.platform.raised \/ call.platform.displays = << >>) =>
                      /\ Len(call.result) = 1
                      /\ call.result[1].w = 1920
                      /\ call.result[1].h = 1080
                      /\ call.result[1].x = 0
                      /\ call.result[1].y = 0
                      /\ call.result[1].retina_scale = 1)
    /\ [][_all_displays' # _all_displays => Len(_all_displays') >= 1]_vars

\* the enumeration raised, and a handler replaced a list of two displays by
\* the default display
C24_Witness ==
    /\ call.fn = "_detect_all_displays"
    /\ call.done
    /\ call.platform.raised
    /\ call.result = <<DefaultDisplay>>
    /\ _all_displays = <<DefaultDisplay>>
    /\ _captured_display # NoDisplay
    /\ _captured_display[1].obj = 1
    /\ _captured_display[1].id = 1

\* C25: the listener callback appends exactly one event (x, y,
\* is_primary_button, timestamp) to the click queue for a button press and
\* leaves the queue as it is for a release; is_primary_button is true
\* exactly when the button is the left one.
C25_OnePerPress ==
    (call.fn = "on_click" /\ call.done) =>
        /\ call.pressed =>
              /\ Len(call.queue_after) = Len(call.queue) + 1
              /\ SubSeq(call.queue_after, 1, Len(call.queue)) = call.queue
              /\ LET e == call.queue_after[Len(call.queue_after)]
                 IN  /\ e[1] = call.x
                     /\ e[2] = call.y
                     /\ e[3] = (call.button = "left")
                     /\ e[4] = call.t
        /\ ~call.pressed => call.queue_after = call.queue

\* the release of the left button and the press of the middle button, on a
\* queue that holds an earlier press
C25_Witness ==
    /\ call.fn = "on_click"
    /\ call.done
    /\ call.queue # << >>
    /\ \/ ~call.pressed /\ call.button = "left" /\ Len(call.queue_after) = 1
       \/ /\ call.pressed
          /\ call.button = "middle"
          /\ Len(call.queue_after) = 2
          /\ call.queue_after[2][3] = FALSE

\* a step of the listener thread: the callback is entered or left
ListenerStep == callback' # callback \/ nclicks' # nclicks

\* C26: the listener thread only appends to the click queue and writes
\* neither _active_clicks nor the settings nor the display snapshot; every
\* change of _active_clicks is made on the UI thread, by the timer callback
\* (spawning through allocate_slot, expiry) or by _cleanup_sources.
C26_SingleWriter ==
    [][ /\ ListenerStep =>
              /\ UNCHANGED <<_active_clicks, _settings, _retina_scale,
                             _all_displays, _captured_display, scene_items>>
              /\ \/ _click_queue' = _click_queue
                 \/ /\ Len(_click_queue') = Len(_click_queue) + 1
                    /\ SubSeq(_click_queue', 1, Len(_click_queue)) = _click_queue
        /\ _active_clicks' # _active_clicks =>
              /\ ~ListenerStep
              /\ \/ pc = "pop" /\ pc' = "test"
                 \/ pc = "expire" /\ pc' = "done"
                 \/ pc = "idle" /\ pc' = "unloaded" ]_vars

\* the listener appended while the timer callback was between two steps of
\* its drain and a marker was live
C26_Witness ==
    /\ pc = "test"
    /\ _active_clicks # << >>
    /\ _click_queue # << >>
    /\ _click_queue[Len(_click_queue)][5] > last_spawn.serial
    /\ last_spawn.valid
    /\ callback = NoCallback
    /\ nclicks = 2

\* C27: whenever _spawn_circle calls allocate_slot there is a free index
\* below the capacity or an entry with the prefix to evict: the third return
\* of the allocator (prefix + "0", nothing evicted) is never taken.
C27_NoFallback ==
    /\ (last_spawn.valid /\ ~last_spawn.discarded) =>
           last_spawn.branch \in {"free", "evict"}
    /\ (pc = "pop" /\ _click_queue # << >>) =>
           LET prefix == PrefixOf(Head(_click_queue)[3])
           IN  \/ AbsentIndices(prefix, _settings.max_circles, _active_clicks) # {}
               \/ PositionsOf(prefix, _active_clicks) # {}

\* a spawn into a pool of capacity 1 with no free index, while the other
\* prefix has a live entry: the entry with the spawn's prefix was evicted
C27_Witness ==
    /\ last_spawn.valid
    /\ ~last_spawn.discarded
    /\ last_spawn.branch = "evict"
    /\ last_spawn.max_c = 1
    /\ Len(_active_clicks) > 1
    /\ \E k \in 1..Len(_active_clicks) : ~HasPrefix(_active_clicks[k][1], last_spawn.prefix)

\* C28 as stated: with more than one display known, a spawn on a display
\* that passes the discard check calls the mapper with the display-local
\* coordinates and the display's w and h, all multiplied by that display's
\* backing scale; a spawn with no display resolved calls it with the raw
\* coordinates and the monitor_w, monitor_h settings.
C28_MapperInput ==
    (last_spawn.valid /\ ~last_spawn.discarded /\ Len(_all_displays) > 1) =>
        LET hit == HitDisplay(last_spawn.x, last_spawn.y)
        IN  IF hit # NoDisplay
            THEN last_spawn.mapper =
                    [phys_x |-> (last_spawn.x - hit[1].x) * hit[1].retina_scale,
                     phys_y |-> (last_spawn.y - hit[1].y) * hit[1].retina_scale,
                     phys_mon_w |-> hit[1].w * hit[1].retina_scale,
                     phys_mon_h |-> hit[1].h * hit[1].retina_scale]
            ELSE last_spawn.mapper =
                    [phys_x |-> last_spawn.x, phys_y |-> last_spawn.y,
                     phys_mon_w |-> _settings.monitor_w,
                     phys_mon_h |-> _settings.monitor_h]

\* C28, amended: as above, but a spawn with no display resolved calls the
\* mapper with the raw coordinates and the monitor_w, monitor_h settings
\* multiplied by the global backing scale (the primary display's).
C28_MapperInputScaled ==
    (last_spawn.valid /\ ~last_spawn.discarded /\ Len(_all_displays) > 1) =>
        LET hit == HitDisplay(last_spawn.x, last_spawn.y)
        IN  IF hit # NoDisplay
            THEN last_spawn.mapper =
                    [phys_x |-> (last_spawn.x - hit[1].x) * hit[1].retina_scale,
                     phys_y |-> (last_spawn.y - hit[1].y) * hit[1].retina_scale,
                     phys_mon_w |-> hit[1].w * hit[1].retina_scale,
                     phys_mon_h |-> hit[1].h * hit[1].retina_scale]
            ELSE last_spawn.mapper =
                    [phys_x |-> last_spawn.x * _retina_scale,
                     phys_y |-> last_spawn.y * _retina_scale,
                     phys_mon_w |-> _settings.monitor_w * _retina_scale,
                     phys_mon_h |-> _settings.monitor_h * _retina_scale]

\* a spawn in the dead zone with no captured display designated, the primary
\* display being the HiDPI one: the point and the monitor settings are doubled
C28_Witness ==
    /\ last_spawn.valid
    /\ ~last_spawn.discarded
    /\ Len(_all_displays) > 1
    /\ _captured_display = NoDisplay
    /\ _retina_scale = 2
    /\ HitDisplay(last_spawn.x, last_spawn.y) = NoDisplay
    /\ last_spawn.x = 1
    /\ last_spawn.mapper =
          [phys_x |-> 2, phys_y |-> 0, phys_mon_w |-> 3840, phys_mon_h |-> 2160]

\* C29: a tick runs its expiry only after its drain has found the queue
\* empty, so every event that waited when the tick started (and every event
\* pushed before the drain ended) has been spawned or discarded by then, one
\* event per turn of the loop; and the drain, the producer pushing finitely
\* many events, comes to its end.
C29_DrainBeforeExpiry ==
    /\ [](pc = "pop" => _click_queue # << >>)
    /\ [][ /\ pc' = "expire" =>
                 \/ pc = "expire"
                 \/ pc = "test" /\ _click_queue = << >> /\ nconsumed = nclicks
           /\ (pc = "test" /\ _click_queue # << >> /\ pc' # "test") =>
                 pc' = "pop" /\ UNCHANGED <<_click_queue, _active_clicks>>
           /\ (pc = "pop" /\ pc' # "pop") =>
                 /\ pc' = "test"
                 /\ nconsumed' = nconsumed + 1
                 /\ last_spawn'.valid
                 /\ last_spawn'.serial = nconsumed + 1
           /\ (pc \in {"test", "pop"} /\ pc' = pc) => nconsumed' = nconsumed
         ]_vars
    /\ (pc \in {"test", "pop"}) ~> (pc = "expire")

\* a drain that consumed three events, one of them pushed while it ran, is
\* over and the expiry is about to run
C29_Witness ==
    /\ pc = "expire"
    /\ last_spawn.valid
    /\ last_spawn.serial = 3
    /\ nconsumed = 3
    /\ nclicks = 3
    /\ _click_queue = << >>
    /\ Len(render) >= 3

\* C30: after script_update the monitor_w, monitor_h settings are the
\* captured display's w and h if override_monitor is off and a captured
\* display was resolved, and the values stored in the user's settings if
\* override_monitor is on or no captured display was resolved.
C30_EffectiveMonitor ==
    /\ [](call.fn = "script_update" =>
            LET captured == call.captured_display
            IN  /\ (~call.override_monitor /\ captured # NoDisplay) =>
                       /\ _settings.monitor_w = captured[1].w
                       /\ _settings.monitor_h = captured[1].h
                /\ (call.override_monitor \/ captured = NoDisplay) =>
                       /\ _settings.monitor_w = call.monitor[1]
                       /\ _settings.monitor_h = call.monitor[2])
    /\ [][call' # call => call'.captured_display = _captured_display']_vars

\* the secondary display is the captured one and the override is off: the
\* settings hold its size, not the stored 1920x1080
C30_Witness ==
    /\ call.fn = "script_update"
    /\ ~call.override_monitor
    /\ call.monitor = DefaultMonitor
    /\ _captured_display # NoDisplay
    /\ _captured_display = call.captured_display
    /\ _captured_display[1].id = 1
    /\ _settings.monitor_w = 3
    /\ _settings.monitor_h = 2

\* ------------------------------------------------------------------------
\* C31..C38
\* ------------------------------------------------------------------------
\* how many of the first n calls are op on ref
CountCalls(calls, n, op, ref) ==
    Cardinality({k \in 1..n : calls[k].op = op /\ calls[k].ref = ref})

\* references of ref held after the first n calls
Held(calls, n, ref) ==
    CountCalls(calls, n, "acquire", ref) - CountCalls(calls, n, "release", ref)

\* C31: in _get_current_scene, _spawn_circle, _show_source, _hide_source and
\* _cleanup_sources every current-scene source taken is released exactly
\* once on every path (none is held at the end, at most one at a time, none
\* released before it was taken); _show_source releases the source it
\* created or looked up exactly once after adding it to the scene, and
\* releases no source when the item is in the scene already.
C31_ReferenceBalance ==
    (call.fn = "obs calls" /\ call.done) =>
        LET calls == call.calls
            a == call.args
            n == Len(calls)
        IN  /\ \A ref \in {"scene_source", "source"} :
                  /\ Held(calls, n, ref) = 0
                  /\ \A k \in 0..n : Held(calls, k, ref) \in {0, 1}
            /\ a.operation = "_show_source" =>
                  /\ CountCalls(calls, n, "acquire", "scene_source") = 1
                  /\ CountCalls(calls, n, "release", "source") =
                        IF a.has_scene /\ ~a.in_scene THEN 1 ELSE 0
            /\ a.operation \in {"_get_current_scene", "_hide_source",
                                "_cleanup_sources"} =>
                  CountCalls(calls, n, "acquire", "scene_source") = 1
            /\ (a.operation = "_spawn_circle" /\ ~a.discard) =>
                  CountCalls(calls, n, "release", "scene_source") =
                     IF a.evicts THEN 3 ELSE 2

\* a spawn that evicts and then adds a new item to the scene: three scene
\* sources and one source taken and given back
C31_Witness ==
    /\ call.fn = "obs calls"
    /\ call.done
    /\ call.args.operation = "_spawn_circle"
    /\ ~call.args.discard
    /\ call.args.evicts
    /\ call.args.has_scene
    /\ ~call.args.in_scene
    /\ Len(call.calls) = 8
    /\ call.calls[8] = Release("source")

\* C32: no slot name occurs twice in _active_clicks, whatever the order of
\* spawns of either button, ticks and changes of max_circles; a spawn
\* appends a name that was absent or that it has just evicted.
C32_NamesDistinct ==
    /\ [](\A i, j \in 1..Len(_active_clicks) :
             i # j => _active_clicks[i][1] # _active_clicks[j][1])
    /\ [][ (pc = "pop" /\ pc' = "test" /\ ~last_spawn'.discarded) =>
             /\ \/ last_spawn'.slot_name \notin Names(_active_clicks)
                \/ last_spawn'.slot_name = last_spawn'.evicted
             /\ _active_clicks'[Len(_active_clicks')][1] = last_spawn'.slot_name
         ]_vars

\* after max_circles was lowered the spawn re-used the name of an entry
\* beyond the capacity, evicting it, and the list holds two distinct names
C32_Witness ==
    /\ last_spawn.valid
    /\ ~last_spawn.discarded
    /\ last_spawn.evicted = last_spawn.slot_name
    /\ last_spawn.slot_name = SlotName(last_spawn.prefix, 1)
    /\ last_spawn.max_c = 1
    /\ Len(_active_clicks) = 2
    /\ _active_clicks[2][1] = last_spawn.slot_name

\* the requests sent by the step
Sent == SubSeq(render', Len(render) + 1, Len(render'))

\* C33: with the scene there for every render call, at the end of every
\* tick a pooled slot is visible exactly when its name is in _active_clicks;
\* and a hide request sent for an expired or evicted entry never leaves
\* hidden a name that is live after the step: either the name is not live,
\* or a show request for it follows in the same step.
C33_VisibleIffLive ==
    /\ [](pc = "done" =>
            \A n \in AllNames :
                scene_items[n] = "visible" <=> n \in Names(_active_clicks))
    /\ [][ (pc \in {"pop", "expire"} /\ pc' # pc) =>
             \A k \in 1..Len(Sent) :
                 Sent[k].op = "hide" =>
                    \/ Sent[k].name \notin Names(_active_clicks')
                    \/ /\ \E j \in (k + 1)..Len(Sent) : Sent[j] = ShowReq(Sent[k].name)
                       /\ scene_items'[Sent[k].name] = "visible"
         ]_vars

\* the end of a tick that evicted a marker, showed the new one under the
\* same name and hid another that had expired: one visible, one hidden
C33_Witness ==
    /\ pc = "done"
    /\ last_spawn.valid
    /\ last_spawn.evicted # NoName
    /\ last_spawn.slot_name \in Names(_active_clicks)
    /\ scene_items[last_spawn.slot_name] = "visible"
    /\ \E n \in AllNames : scene_items[n] = "hidden"
    /\ render[Len(render)].op = "hide"

\* the two globals and the timer list as they are now
LifecycleNow == Lifecycle(_listener, _timer_active, call.timers)

\* C34: after any sequence of _start_listener and _stop_listener calls the
\* timer is registered at most once and _timer_active is true exactly when
\* _listener is not None (and exactly when the timer is registered); a start
\* while running and a stop while stopped change nothing; a start whose
\* import of pynput fails leaves both unset.
C34_Lifecycle ==
    /\ call.timers \in {0, 1}
    /\ _timer_active <=> _listener # None
    /\ _timer_active <=> call.timers = 1
    /\ (call.fn = "_start_listener" /\ call.before._listener # None) =>
            LifecycleNow = call.before
    /\ (call.fn = "_stop_listener" /\ call.before._listener = None) =>
            LifecycleNow = call.before
    /\ (call.fn = "_start_listener" /\ ~call.pynput) =>
            \/ call.before._listener # None
            \/ _listener = None /\ ~_timer_active /\ call.timers = 0

\* a start while running, after a tick has drawn a marker
C34_Witness ==
    /\ call.fn = "_start_listener"
    /\ call.before._listener # None
    /\ _timer_active
    /\ call.timers = 1
    /\ _active_clicks # << >>

\* a start whose import fails, while stopped after having run
C34_WitnessImport ==
    /\ call.fn = "_start_listener"
    /\ ~call.pynput
    /\ call.before._listener = None
    /\ nconsumed > 0

\* C35: after any sequence of script_defaults, script_update and Refresh
\* Displays, _captured_display is None or one of the display objects of the
\* current _all_displays list (the very object, as `is` compares them).
C35_CapturedIsCurrent ==
    \/ _captured_display = NoDisplay
    \/ \E k \in 1..Len(_all_displays) : _all_displays[k] = _captured_display[1]

\* a capture source resolved to a display of the list, as script_update and
\* Refresh Displays leave it
C35_Resolved ==
    /\ _captured_display # NoDisplay
    /\ \E k \in 1..Len(_all_displays) : _all_displays[k] = _captured_display[1]

\* two rectangles with a point in common
Overlapping(a, b) ==
    /\ a.x < b.x + b.w /\ b.x < a.x + a.w
    /\ a.y < b.y + b.h /\ b.y < a.y + a.h

Disjoint(displays) ==
    \A i, j \in 1..Len(displays) :
        i # j => ~Overlapping(displays[i], displays[j])

\* (x, y) is on the left edge of b where b touches the right edge of a, or
\* on the top edge of b where b touches the bottom edge of a
OnSharedEdge(x, y, a, b) ==
    \/ /\ a.x + a.w = b.x /\ x = b.x
       /\ a.y <= y /\ y < a.y + a.h /\ b.y <= y /\ y < b.y + b.h
    \/ /\ a.y + a.h = b.y /\ y = b.y
       /\ a.x <= x /\ x < a.x + a.w /\ b.x <= x /\ x < b.x + b.w

\* C36: for pairwise non-overlapping displays find_display_for_point returns
\* the same display (or None) whatever the order of the list; a point on the
\* edge two adjacent displays share belongs to the one whose left or top
\* edge it is, and to that one only.
C36_OrderIndependent ==
    (call.fn = "find_display_for_point reordered" /\ call.done
        /\ Disjoint(call.displays)) =>
        /\ Cardinality(call.found) = 1
        /\ \A i, j \in 1..Len(call.displays) :
               OnSharedEdge(call.x, call.y, call.displays[i], call.displays[j]) =>
                  call.found = {<<call.displays[j]>>}

\* the point on the edge shared by the two displays, the list naming the
\* right-hand display first
C36_Witness ==
    /\ call.fn = "find_display_for_point reordered"
    /\ call.done
    /\ Len(call.displays) = 2
    /\ Disjoint(call.displays)
    /\ OnSharedEdge(call.x, call.y, call.displays[2], call.displays[1])
    /\ call.displays[1].x = call.displays[2].x + call.displays[2].w
    /\ call.found = {<<call.displays[1]>>}

\* C37: the tick never calls popleft on an empty queue, whatever the
\* listener appends in between: when the loop is at its popleft the queue
\* is not empty, between the loop's test and its popleft the queue only
\* grows, and the queue gets shorter by the tick's popleft only, one event
\* at a time.
C37_NeverPopEmpty ==
    /\ [](pc = "pop" => Len(_click_queue) >= 1)
    /\ [][ /\ (pc = "pop" /\ pc' = "pop") =>
                 /\ Len(_click_queue') >= Len(_click_queue)
                 /\ SubSeq(_click_queue', 1, Len(_click_queue)) = _click_queue
           /\ Len(_click_queue') < Len(_click_queue) =>
                 /\ pc = "pop" /\ pc' = "test"
                 /\ _click_queue' = Tail(_click_queue)
         ]_vars

\* the loop is at its popleft with two events waiting, the second pushed by
\* the listener after the tick had started
C37_Witness ==
    /\ pc = "pop"
    /\ Len(_click_queue) = 2
    /\ _click_queue[2][4] > now

\* C38: without a capture transform the canvas position of a spawn does not
\* depend on the backing scale: the point and the monitor size scaled by
\* r > 0 give the position of r = 1. With a transform supplied the position
\* depends on r through the point only: the monitor size plays no part.
C38_ScaleInvariant ==
    (call.fn = "spawn position" /\ call.done) =>
        /\ call.args.transform = NoTransform => call.scaled = call.plain
        /\ call.args.transform # NoTransform => call.any_monitor = {call.scaled}

\* a point away from the origin on a display of backing scale 2, mapped
\* without a transform
C38_Witness ==
    /\ call.fn = "spawn position"
    /\ call.done
    /\ call.retina = 2
    /\ call.args.transform = NoTransform
    /\ call.args.point = <<3, 1>>
    /\ call.scaled = call.plain

\* the same point with a transform supplied: the position moves with the
\* backing scale
C38_WitnessTransform ==
    /\ call.fn = "spawn position"
    /\ call.done
    /\ call.retina = 2
    /\ call.args.transform # NoTransform
    /\ call.scaled # call.plain
    /\ call.any_monitor = {call.scaled}

====
